---- MODULE Spec2Model ----
(***************************************************************************)
(* Risk / position-lifecycle engine of the BingX futures bot.              *)
(*                                                                         *)
(* Units.  Money (pnl, balances, drawdown) is in whole USDT.  Prices are   *)
(* in tenths of a quote unit (1000 = 100.0).  stop_loss_pct, trailing_pct, *)
(* take_profit_pct are in hundredths of a percent (200 = 2.0%); the        *)
(* kill-switch and drawdown percentages are in whole percent.  Every       *)
(* floating-point comparison of the source is modelled as the exact        *)
(* rational comparison, cross-multiplied.  Confidence is in hundredths.    *)
(***************************************************************************)
EXTENDS Integers, Sequences, FiniteSets, TLC

(***************************************************************************)
(* Bounds of the model.                                                    *)
(***************************************************************************)
MaxTrades == 3          \* closed trades recorded in one run
MaxDay == 1             \* calendar days after construction
SmallDailyCap == 2      \* a small configured daily_limits.max_trades
WarmTrades == 27        \* trades on record at the start of the busy day

(***************************************************************************)
(* Defaults of RiskManager.__init__                                        *)
(***************************************************************************)
stop_loss_pct == 200
trailing_pct == 50
take_profit_pct == 300
DefaultMaxDailyTrades == 30
max_daily_loss == 30
max_drawdown_pct == 10
kill_switch_loss_pct == 10
kill_switch_consecutive == 3
initial_balance_usdt == 100
min_confidence == 65
MaxVolatility == 5
RsiTooHigh == 80
RsiTooLow == 20

Symbols == {"BTC-USDT"}
Sides == {"LONG", "SHORT"}
NoValue == "None"
NoPosition == [symbol |-> NoValue, side |-> NoValue, entry_price |-> 0]

\* Inputs of the environment
PnLs == {-10, 0, 20}
TradeSides == {"long", "close_long", "partial_close_long"}
Prices == {979, 1000, 1030}

VARIABLES
    config,                 \* RiskManager.config, the values read in __init__
    kill_switch_triggered,  \* RiskManager.kill_switch_triggered
    daily_trade_count,      \* RiskManager.daily_trade_count
    daily_pnl,              \* RiskManager.daily_pnl
    last_reset_date,        \* RiskManager.last_reset_date
    statistics,             \* RiskManager.statistics
    trailing_stops,         \* RiskManager.trailing_stops: symbol -> best price
    today,                  \* datetime.now().date(), days since construction
    lastOp,                 \* the method called last
    lastResult,             \* the boolean that call returned
    lastReason,             \* the reason that call returned or logged
    bot,                    \* which bot class runs the cycles
    pm_positions,           \* position_manager.positions: symbol -> position
    exchange_positions,     \* what the order gateway holds on the exchange
    cycle,                  \* what happened in the last run_trading_cycle
    tracker_positions,      \* PositionTracker.positions: symbol -> data
    position_history,       \* len(PositionTracker.position_history)
    max_concurrent,         \* PositionTracker.max_concurrent
    em_config,              \* ExitManager: the values read in __init__
    em_position,            \* the position dict handed to ExitManager
    em_price,               \* current_price of the last ExitManager call
    now,                    \* datetime.now(), seconds since construction
    held,                   \* the open position the RiskManager is asked about
    check_price,            \* current_price of the last check_exit_conditions
    best_seen,              \* best favourable price passed in since the entry
    ta,                     \* MarketAnalyzer.ta: the TechnicalAnalysis timers
    rd,                     \* MarketAnalyzer.regime_detector
    request,                \* the inputs of the last analysis call
    last_signal,            \* the TradingSignal the last call returned
    assessment,             \* the RegimeAnalysis computed last
    assessed_at,            \* when it was computed
    last_directional,       \* when a long or short signal was last returned
    ks,                     \* the KillSwitch object
    call_args,              \* the arguments of the last call of a function
    call_result,            \* what that call returned
    ma_config,              \* MarketAnalyzer.config, the analyzer's own dict
    sc_position             \* the position dict handed to IntelligentPositionScaling

riskVars == <<config, kill_switch_triggered, daily_trade_count, daily_pnl,
              last_reset_date, statistics, trailing_stops>>
botVars == <<bot, pm_positions, exchange_positions, cycle>>
trackerVars == <<tracker_positions, position_history, max_concurrent>>
exitVars == <<em_config, em_position, em_price, now>>
heldVars == <<held, check_price, best_seen>>
analyzerVars == <<ta, rd, request, last_signal, assessment, assessed_at, last_directional>>
safetyVars == <<ks>>
callVars == <<call_args, call_result, ma_config, sc_position>>
componentVars == <<exitVars, heldVars, analyzerVars, safetyVars, callVars>>
vars == <<config, kill_switch_triggered, daily_trade_count, daily_pnl,
          last_reset_date, statistics, trailing_stops, today, lastOp, lastResult,
          lastReason, bot, pm_positions, exchange_positions, cycle,
          tracker_positions, position_history, max_concurrent,
          em_config, em_position, em_price, now, held, check_price, best_seen,
          ta, rd, request, last_signal, assessment, assessed_at, last_directional,
          ks, call_args, call_result, ma_config, sc_position>>

Abs(x) == IF x < 0 THEN -x ELSE x
Min(a, b) == IF a < b THEN a ELSE b
Max(a, b) == IF a > b THEN a ELSE b

(***************************************************************************)
(* RiskManager.__init__                                                    *)
(***************************************************************************)
InitStatistics ==
    [daily_trades |-> 0, total_pnl |-> 0, win_rate |-> 0, total_trades |-> 0,
     wins |-> 0, losses |-> 0, best_trade |-> 0, worst_trade |-> 0,
     consecutive_losses |-> 0, max_consecutive_losses |-> 0, daily_loss |-> 0,
     current_drawdown |-> 0, max_drawdown |-> 0]

Configs ==
    [stop_loss_enabled : {TRUE},
     trailing_enabled : {TRUE},
     take_profit_enabled : {TRUE},
     max_daily_trades : {SmallDailyCap, DefaultMaxDailyTrades},
     kill_switch_enabled : BOOLEAN]

\* The RiskManager object as one value, so that its methods compose.
RM ==
    [kill_switch_triggered |-> kill_switch_triggered,
     daily_trade_count |-> daily_trade_count,
     daily_pnl |-> daily_pnl,
     last_reset_date |-> last_reset_date,
     statistics |-> statistics,
     trailing_stops |-> trailing_stops]

SetRM(rm) ==
    /\ kill_switch_triggered' = rm.kill_switch_triggered
    /\ daily_trade_count' = rm.daily_trade_count
    /\ daily_pnl' = rm.daily_pnl
    /\ last_reset_date' = rm.last_reset_date
    /\ statistics' = rm.statistics
    /\ trailing_stops' = rm.trailing_stops

\* {} : the empty dict
EmptyDict == [x \in {} |-> 0]

InitRM ==
    [kill_switch_triggered |-> FALSE,
     daily_trade_count |-> 0,
     daily_pnl |-> 0,
     last_reset_date |-> 0,
     statistics |-> InitStatistics,
     trailing_stops |-> EmptyDict]

SetInit ==
    /\ kill_switch_triggered = InitRM.kill_switch_triggered
    /\ daily_trade_count = InitRM.daily_trade_count
    /\ daily_pnl = InitRM.daily_pnl
    /\ last_reset_date = InitRM.last_reset_date
    /\ statistics = InitRM.statistics
    /\ trailing_stops = InitRM.trailing_stops

(***************************************************************************)
(* RiskManager methods, as functions of the object                         *)
(***************************************************************************)
\* variants of the daily reset that the properties below must tell apart
reset_daily_stats_and_kill_switch(rm, date) ==
    IF date > rm.last_reset_date
    THEN [rm EXCEPT !.daily_trade_count = 0,
                    !.daily_pnl = 0,
                    !.statistics.daily_trades = 0,
                    !.statistics.daily_loss = 0,
                    !.kill_switch_triggered = FALSE,
                    !.last_reset_date = date]
    ELSE rm

reset_daily_stats_keeping_pnl(rm, date) ==
    IF date > rm.last_reset_date
    THEN [rm EXCEPT !.daily_trade_count = 0,
                    !.statistics.daily_trades = 0,
                    !.last_reset_date = date]
    ELSE rm

reset_daily_stats_keeping_daily_trades(rm, date) ==
    IF date > rm.last_reset_date
    THEN [rm EXCEPT !.daily_trade_count = 0,
                    !.daily_pnl = 0,
                    !.statistics.daily_loss = 0,
                    !.last_reset_date = date]
    ELSE rm

reset_daily_stats_if_needed(rm, date) ==
    IF date > rm.last_reset_date
    THEN [rm EXCEPT !.daily_trade_count = 0,
                    !.daily_pnl = 0,
                    !.statistics.daily_trades = 0,
                    !.statistics.daily_loss = 0,
                    !.last_reset_date = date]
    ELSE rm

trigger_kill_switch(rm) == [rm EXCEPT !.kill_switch_triggered = TRUE]

\* a reset that forgets the losing streak as well
reset_kill_switch_clearing_losses(rm) ==
    [rm EXCEPT !.kill_switch_triggered = FALSE, !.statistics.consecutive_losses = 0]

reset_kill_switch(rm) == [rm EXCEPT !.kill_switch_triggered = FALSE]

\* can_open_position that does not look at the kill switch
can_open_position_ignoring_kill_switch(rm, cfg, date) ==
    LET r == reset_daily_stats_if_needed(rm, date) IN
    IF r.daily_trade_count >= cfg.max_daily_trades
    THEN [rm |-> r, result |-> FALSE, reason |-> "daily_limit"]
    ELSE IF Abs(r.daily_pnl) >= max_daily_loss /\ r.daily_pnl < 0
    THEN [rm |-> r, result |-> FALSE, reason |-> "daily_loss"]
    ELSE [rm |-> r, result |-> TRUE, reason |-> "ok"]

\* can_open_position without the daily trade cap
can_open_position_without_daily_limit(rm, cfg, date) ==
    LET r == reset_daily_stats_if_needed(rm, date) IN
    IF r.kill_switch_triggered
    THEN [rm |-> r, result |-> FALSE, reason |-> "kill_switch"]
    ELSE IF Abs(r.daily_pnl) >= max_daily_loss /\ r.daily_pnl < 0
    THEN [rm |-> r, result |-> FALSE, reason |-> "daily_loss"]
    ELSE IF r.statistics.consecutive_losses >= kill_switch_consecutive
    THEN [rm |-> trigger_kill_switch(r), result |-> FALSE,
          reason |-> "consecutive_losses"]
    ELSE [rm |-> r, result |-> TRUE, reason |-> "ok"]

can_open_position(rm, cfg, date) ==
    LET r == reset_daily_stats_if_needed(rm, date) IN
    IF r.kill_switch_triggered
    THEN [rm |-> r, result |-> FALSE, reason |-> "kill_switch"]
    ELSE IF r.daily_trade_count >= cfg.max_daily_trades
    THEN [rm |-> r, result |-> FALSE, reason |-> "daily_limit"]
    ELSE IF Abs(r.daily_pnl) >= max_daily_loss /\ r.daily_pnl < 0
    THEN [rm |-> r, result |-> FALSE, reason |-> "daily_loss"]
    ELSE IF r.statistics.consecutive_losses >= kill_switch_consecutive
    THEN [rm |-> trigger_kill_switch(r), result |-> FALSE,
          reason |-> "consecutive_losses"]
    ELSE [rm |-> r, result |-> TRUE, reason |-> "ok"]

\* _check_kill_switch_conditions without the drawdown branch
check_kill_switch_without_drawdown(rm, cfg) ==
    IF ~cfg.kill_switch_enabled \/ rm.kill_switch_triggered
    THEN rm
    ELSE IF /\ rm.statistics.total_pnl < 0
            /\ Abs(rm.statistics.total_pnl) * 100
                   >= kill_switch_loss_pct * initial_balance_usdt
    THEN trigger_kill_switch(rm)
    ELSE IF rm.statistics.consecutive_losses >= kill_switch_consecutive
    THEN trigger_kill_switch(rm)
    ELSE rm

check_kill_switch_conditions(rm, cfg) ==
    IF ~cfg.kill_switch_enabled \/ rm.kill_switch_triggered
    THEN rm
    ELSE IF /\ rm.statistics.total_pnl < 0
            /\ Abs(rm.statistics.total_pnl) * 100
                   >= kill_switch_loss_pct * initial_balance_usdt
    THEN trigger_kill_switch(rm)
    ELSE IF rm.statistics.consecutive_losses >= kill_switch_consecutive
    THEN trigger_kill_switch(rm)
    ELSE IF rm.statistics.current_drawdown * 100
                >= max_drawdown_pct * initial_balance_usdt
    THEN trigger_kill_switch(rm)
    ELSE rm

\* 'close' in trade.get('side', '')
ContainsClose(side) ==
    side \in {"close_long", "close_short",
              "partial_close_long", "partial_close_short"}

\* del d[k] on the trailing_stops dict
DictDel(d, k) == [x \in (DOMAIN d) \ {k} |-> d[x]]

\* d[k] = v on the trailing_stops dict
DictSet(d, k, v) == [x \in (DOMAIN d) \cup {k} |-> IF x = k THEN v ELSE d[x]]

\* win_rate = wins / total * 100, kept as the whole percent
WinRate(wins, losses) ==
    IF wins + losses > 0 THEN (wins * 100) \div (wins + losses) ELSE 0

update_statistics(rm, cfg, date, trade) ==
    LET r0 == reset_daily_stats_if_needed(rm, date)
        pnl == trade.pnl
        s0 == r0.statistics
        dtc == r0.daily_trade_count + 1
        dpnl == r0.daily_pnl + pnl
        cl == IF pnl > 0 THEN 0 ELSE s0.consecutive_losses + 1
        wins == IF pnl > 0 THEN s0.wins + 1 ELSE s0.wins
        losses == IF pnl > 0 THEN s0.losses ELSE s0.losses + 1
        dd == IF pnl < 0 THEN s0.current_drawdown + Abs(pnl)
                         ELSE Max(0, s0.current_drawdown - pnl)
        s1 == [daily_trades |-> dtc,
               total_pnl |-> s0.total_pnl + pnl,
               win_rate |-> WinRate(wins, losses),
               total_trades |-> s0.total_trades + 1,
               wins |-> wins,
               losses |-> losses,
               best_trade |-> IF pnl > s0.best_trade THEN pnl ELSE s0.best_trade,
               worst_trade |-> IF pnl < s0.worst_trade THEN pnl ELSE s0.worst_trade,
               consecutive_losses |-> cl,
               max_consecutive_losses |->
                   IF pnl <= 0 /\ cl > s0.max_consecutive_losses
                   THEN cl ELSE s0.max_consecutive_losses,
               daily_loss |-> Min(0, dpnl),
               current_drawdown |-> dd,
               max_drawdown |->
                   IF pnl < 0 /\ dd > s0.max_drawdown THEN dd ELSE s0.max_drawdown]
        ts == IF /\ trade.symbol # NoValue
                 /\ trade.symbol \in DOMAIN r0.trailing_stops
                 /\ ContainsClose(trade.side)
              THEN DictDel(r0.trailing_stops, trade.symbol)
              ELSE r0.trailing_stops
        r1 == [r0 EXCEPT !.daily_trade_count = dtc,
                         !.daily_pnl = dpnl,
                         !.statistics = s1,
                         !.trailing_stops = ts]
    IN check_kill_switch_conditions(r1, cfg)

is_kill_switch_active(rm) == rm.kill_switch_triggered

get_statistics(rm, date) == reset_daily_stats_if_needed(rm, date)

\* position.side == PositionSide.LONG ? (cp - ep) : (ep - cp), times the sign
PnlDelta(position, current_price) ==
    IF position.side = "LONG"
    THEN current_price - position.entry_price
    ELSE position.entry_price - current_price

update_trailing_stop(rm, cfg, symbol, current_price, side) ==
    IF ~cfg.trailing_enabled
    THEN rm
    ELSE IF symbol \notin DOMAIN rm.trailing_stops
    THEN [rm EXCEPT !.trailing_stops = DictSet(@, symbol, current_price)]
    ELSE IF side = "LONG"
    THEN IF current_price > rm.trailing_stops[symbol]
         THEN [rm EXCEPT !.trailing_stops = DictSet(@, symbol, current_price)]
         ELSE rm
    ELSE IF current_price < rm.trailing_stops[symbol]
         THEN [rm EXCEPT !.trailing_stops = DictSet(@, symbol, current_price)]
         ELSE rm

\* pnl_pct = delta / entry_price * 100, compared with a percentage kept in
\* hundredths: pnl_pct <= -pct  <=>  delta * 10000 <= -pct * entry_price
PctAtMost(delta, base, pct) == delta * 10000 <= pct * base
PctAtLeast(delta, base, pct) == delta * 10000 >= pct * base

\* a variant whose stop loss needs the loss to exceed stop_loss_pct
check_exit_conditions_strict_stop_loss(rm, cfg, position, current_price) ==
    IF position = NoPosition
    THEN [rm |-> rm, reason |-> NoValue]
    ELSE
    LET symbol == position.symbol
        delta == PnlDelta(position, current_price)
        best == rm.trailing_stops[symbol]
        tdelta == IF position.side = "LONG" THEN current_price - best
                                            ELSE best - current_price
    IN
    IF cfg.stop_loss_enabled /\ delta * 10000 < -stop_loss_pct * position.entry_price
    THEN [rm |-> rm, reason |-> "Stop Loss"]
    ELSE IF /\ cfg.trailing_enabled
            /\ symbol \in DOMAIN rm.trailing_stops
            /\ PctAtMost(tdelta, best, -trailing_pct)
    THEN [rm |-> rm, reason |-> "Trailing Stop"]
    ELSE IF /\ cfg.take_profit_enabled
            /\ PctAtLeast(delta, position.entry_price, take_profit_pct)
    THEN [rm |-> rm, reason |-> "Take Profit"]
    ELSE [rm |-> update_trailing_stop(rm, cfg, symbol, current_price, position.side),
          reason |-> NoValue]

check_exit_conditions(rm, cfg, position, current_price) ==
    IF position = NoPosition
    THEN [rm |-> rm, reason |-> NoValue]
    ELSE
    LET symbol == position.symbol
        delta == PnlDelta(position, current_price)
        best == rm.trailing_stops[symbol]
        tdelta == IF position.side = "LONG" THEN current_price - best
                                            ELSE best - current_price
    IN
    IF cfg.stop_loss_enabled /\ PctAtMost(delta, position.entry_price, -stop_loss_pct)
    THEN [rm |-> rm, reason |-> "Stop Loss"]
    ELSE IF /\ cfg.trailing_enabled
            /\ symbol \in DOMAIN rm.trailing_stops
            /\ PctAtMost(tdelta, best, -trailing_pct)
    THEN [rm |-> rm, reason |-> "Trailing Stop"]
    ELSE IF /\ cfg.take_profit_enabled
            /\ PctAtLeast(delta, position.entry_price, take_profit_pct)
    THEN [rm |-> rm, reason |-> "Take Profit"]
    ELSE [rm |-> update_trailing_stop(rm, cfg, symbol, current_price, position.side),
          reason |-> NoValue]

validate_signal(rm, cfg, date, signal, indicators) ==
    LET r == can_open_position(rm, cfg, date) IN
    IF ~r.result
    THEN [rm |-> r.rm, result |-> FALSE]
    ELSE IF signal.confidence < min_confidence
    THEN [rm |-> r.rm, result |-> FALSE]
    ELSE IF indicators.volatility > MaxVolatility
    THEN [rm |-> r.rm, result |-> FALSE]
    ELSE IF signal.action = "long" /\ indicators.rsi > RsiTooHigh
    THEN [rm |-> r.rm, result |-> FALSE]
    ELSE IF signal.action = "short" /\ indicators.rsi < RsiTooLow
    THEN [rm |-> r.rm, result |-> FALSE]
    ELSE [rm |-> r.rm, result |-> TRUE]

\* one winning trade, as update_statistics receives it
WinningTrade == [pnl |-> 20, symbol |-> "BTC-USDT", side |-> "close_long"]

\* the object after n winning trades recorded on the day of construction:
\* update_statistics(AfterWins(n), cfg, 0, WinningTrade) = AfterWins(n + 1)
AfterWins(n) ==
    IF n = 0
    THEN InitRM
    ELSE [InitRM EXCEPT !.daily_trade_count = n,
                        !.daily_pnl = n * WinningTrade.pnl,
                        !.statistics.daily_trades = n,
                        !.statistics.total_pnl = n * WinningTrade.pnl,
                        !.statistics.win_rate = 100,
                        !.statistics.total_trades = n,
                        !.statistics.wins = n,
                        !.statistics.best_trade = WinningTrade.pnl]

BusyDayRM == AfterWins(WarmTrades)

\* trades already on record when the run being explored began
TradesAtStart == IF statistics.total_trades >= WarmTrades THEN WarmTrades ELSE 0

(***************************************************************************)
(* PositionTracker methods, as functions of the object                     *)
(***************************************************************************)
HistoryCap == 100
DefaultMaxConcurrent == 1

TrackerSymbols == {"BTC-USDT", "ETH-USDT", "SOL-USDT"}
PositionData == [size : {1, 2}]

\* The PositionTracker object as one value
Tracker == [positions |-> tracker_positions, position_history |-> position_history]

SetTracker(t) ==
    /\ tracker_positions' = t.positions
    /\ position_history' = t.position_history

\* add_position without the check that the symbol is already tracked
add_position_without_symbol_check(t, limit, symbol, position_data) ==
    IF Cardinality(DOMAIN t.positions) >= limit
    THEN [t |-> t, result |-> FALSE]
    ELSE [t |-> [t EXCEPT !.positions = DictSet(@, symbol, position_data)],
          result |-> TRUE]

add_position(t, limit, symbol, position_data) ==
    IF Cardinality(DOMAIN t.positions) >= limit
    THEN [t |-> t, result |-> FALSE]
    ELSE IF symbol \in DOMAIN t.positions
    THEN [t |-> t, result |-> FALSE]
    ELSE [t |-> [t EXCEPT !.positions = DictSet(@, symbol, position_data)],
          result |-> TRUE]

update_position(t, symbol, updates) ==
    IF symbol \notin DOMAIN t.positions
    THEN [t |-> t, result |-> FALSE]
    ELSE [t |-> [t EXCEPT !.positions = DictSet(@, symbol, updates)],
          result |-> TRUE]

\* a variant that files a history entry for a symbol that is not tracked
remove_position_recording_absent(t, symbol) ==
    [t |-> [positions |-> DictDel(t.positions, symbol),
            position_history |-> Min(t.position_history + 1, HistoryCap)],
     result |-> symbol \in DOMAIN t.positions]

\* the history is kept as its length: append, then keep the last HistoryCap
remove_position(t, symbol) ==
    IF symbol \notin DOMAIN t.positions
    THEN [t |-> t, result |-> FALSE]
    ELSE [t |-> [positions |-> DictDel(t.positions, symbol),
                 position_history |-> Min(t.position_history + 1, HistoryCap)],
          result |-> TRUE]

(***************************************************************************)
(* TechnicalAnalysis.generate_trading_signal and MarketAnalyzer            *)
(* The scores are what the indicator tiers add up to; they are inputs.     *)
(* Confidence is in hundredths.                                            *)
(***************************************************************************)
min_score_long == 4
min_score_short == 4
min_score_difference == 1
min_exit_score == 3

\* A TradingSignal: action, confidence, reason.  L and S are the long and the
\* short score the reason text names, NoScore when it names none.
NoScore == -1

TradingSignal(action, confidence, reason, L, S) ==
    [action |-> action, confidence |-> confidence, reason |-> reason, L |-> L, S |-> S]

HoldSignal == TradingSignal("hold", 0, "Mantendo posicao", NoScore, NoScore)

generate_exit_signal(position, market) ==
    IF market.exit_score >= min_exit_score
    THEN TradingSignal(IF position.side = "LONG" THEN "close_long" ELSE "close_short",
                       Min(50 + market.exit_score * 8, 92), "exit_reasons",
                       NoScore, NoScore)
    ELSE HoldSignal

\* the scoring thresholds of a TechnicalAnalysis instance
DefaultScoring ==
    [min_score_long |-> min_score_long, min_score_short |-> min_score_short,
     min_score_difference |-> min_score_difference]

\* a variant that emits a direction on its own score alone
generate_trading_signal_without_margin(scoring, symbol, current_positions, market) ==
    IF symbol \in DOMAIN current_positions
    THEN generate_exit_signal(current_positions[symbol], market)
    ELSE IF market.long_score >= scoring.min_score_long
    THEN TradingSignal("long", Min(45 + market.long_score * 8, 95), "long_reasons",
                       NoScore, NoScore)
    ELSE IF market.short_score >= scoring.min_score_short
    THEN TradingSignal("short", Min(45 + market.short_score * 8, 95), "short_reasons",
                       NoScore, NoScore)
    ELSE TradingSignal("hold", 0, "Aguardando sinal mais forte",
                       market.long_score, market.short_score)

\* generate_trading_signal from the position check on, for an instance with
\* the given thresholds
generate_trading_signal_with(scoring, symbol, current_positions, market) ==
    IF symbol \in DOMAIN current_positions
    THEN generate_exit_signal(current_positions[symbol], market)
    ELSE IF /\ market.long_score >= scoring.min_score_long
            /\ market.long_score > market.short_score + scoring.min_score_difference
    THEN TradingSignal("long", Min(45 + market.long_score * 8, 95), "long_reasons",
                       NoScore, NoScore)
    ELSE IF /\ market.short_score >= scoring.min_score_short
            /\ market.short_score > market.long_score + scoring.min_score_difference
    THEN TradingSignal("short", Min(45 + market.short_score * 8, 95), "short_reasons",
                       NoScore, NoScore)
    ELSE TradingSignal("hold", 0, "Aguardando sinal mais forte",
                       market.long_score, market.short_score)

generate_trading_signal(symbol, current_positions, market) ==
    generate_trading_signal_with(DefaultScoring, symbol, current_positions, market)

\* _generate_regime_aware_signal: the signal generator is called without the
\* open positions (None when no regime was detected, {} otherwise)
generate_regime_aware_signal(symbol, market) ==
    generate_trading_signal(symbol, EmptyDict, market)

\* analyze_market(symbol) takes the symbol only
analyze_market(symbol, market) == generate_regime_aware_signal(symbol, market)

(***************************************************************************)
(* The order gateway (PositionManager): an order either commits, and the   *)
(* position map and the exchange change together, or fails and changes     *)
(* nothing.  A close may report success without a trade record.            *)
(***************************************************************************)
NoTrade == [pnl |-> 0, symbol |-> NoValue, side |-> NoValue]

CloseResults ==
    {[outcome |-> "success", pnl |-> p] : p \in PnLs}
        \cup {[outcome |-> o, pnl |-> 0] : o \in {"success_no_trade", "failure", "exception"}}

OpenResults == {"success", "failure", "exception"}

has_position(pm, symbol) == symbol \in DOMAIN pm

SideOf(action) == IF action = "long" THEN "LONG" ELSE "SHORT"

CloseSide(position, partial) ==
    IF partial
    THEN (IF position.side = "LONG" THEN "partial_close_long" ELSE "partial_close_short")
    ELSE (IF position.side = "LONG" THEN "close_long" ELSE "close_short")

open_position(pm, ex, symbol, action, price, outcome) ==
    LET position == [symbol |-> symbol, side |-> SideOf(action), entry_price |-> price] IN
    IF outcome = "success"
    THEN [pm |-> DictSet(pm, symbol, position), ex |-> DictSet(ex, symbol, position),
          success |-> TRUE]
    ELSE [pm |-> pm, ex |-> ex, success |-> FALSE]

close_position(pm, ex, symbol, partial, res) ==
    IF ~has_position(pm, symbol)
    THEN [pm |-> pm, ex |-> ex, success |-> FALSE,
          raised |-> res.outcome = "exception", trade |-> NoTrade]
    ELSE IF res.outcome \in {"success", "success_no_trade"}
    THEN [pm |-> IF partial THEN pm ELSE DictDel(pm, symbol),
          ex |-> IF partial THEN ex ELSE DictDel(ex, symbol),
          success |-> TRUE,
          raised |-> FALSE,
          trade |-> IF res.outcome = "success"
                    THEN [pnl |-> res.pnl, symbol |-> symbol,
                          side |-> CloseSide(pm[symbol], partial)]
                    ELSE NoTrade]
    ELSE [pm |-> pm, ex |-> ex, success |-> FALSE,
          raised |-> res.outcome = "exception", trade |-> NoTrade]

\* PositionManagerAdapter.close_position: every strategy is tried inside
\* try/except; a result that is None or carries success False, or an
\* exception, in all of them ends in _error_result
adapter_close_position(pm, ex, symbol, partial, res) ==
    LET g == close_position(pm, ex, symbol, partial, res) IN
    IF g.raised \/ ~g.success
    THEN [pm |-> g.pm, ex |-> g.ex, success |-> FALSE, raised |-> FALSE,
          trade |-> NoTrade]
    ELSE g

(***************************************************************************)
(* BingXFuturesBotIntegrated and BingXFuturesBot: exits and entries        *)
(***************************************************************************)
ExitConfidenceThreshold == 70

\* BingXFuturesBotIntegrated._execute_exit / _execute_partial_exit.  With no
\* trade record update_statistics(None) runs its daily reset and then raises
\* on trade.get; the handler's except clause logs it.
execute_exit_integrated(rm, cfg, date, pm, ex, symbol, partial, res) ==
    LET g == close_position(pm, ex, symbol, partial, res) IN
    IF g.raised \/ ~g.success
    THEN [rm |-> rm, pm |-> g.pm, ex |-> g.ex, close |-> "failed", forced |-> FALSE]
    ELSE [rm |-> IF g.trade = NoTrade
                 THEN reset_daily_stats_if_needed(rm, date)
                 ELSE update_statistics(rm, cfg, date, g.trade),
          pm |-> g.pm, ex |-> g.ex, close |-> "success", forced |-> FALSE]

\* BingXFuturesBot._execute_exit over _safe_close_position, which turns an
\* exception of the gateway into a failure result.
execute_exit_basic(rm, cfg, date, pm, ex, symbol, partial, res) ==
    LET g == close_position(pm, ex, symbol, partial, res) IN
    IF g.success
    THEN [rm |-> IF g.trade = NoTrade THEN rm
                 ELSE update_statistics(rm, cfg, date, g.trade),
          pm |-> g.pm, ex |-> g.ex, close |-> "success", forced |-> FALSE]
    ELSE [rm |-> rm, pm |-> DictDel(g.pm, symbol), ex |-> g.ex,
          close |-> "failed", forced |-> TRUE]

execute_exit(kind, rm, cfg, date, pm, ex, symbol, partial, res) ==
    IF kind = "integrated"
    THEN execute_exit_integrated(rm, cfg, date, pm, ex, symbol, partial, res)
    ELSE execute_exit_basic(rm, cfg, date, pm, ex, symbol, partial, res)

\* _execute_entry of both bots: the order is placed, the outcome is logged
execute_entry(pm, ex, symbol, signal, price, outcome) ==
    LET g == open_position(pm, ex, symbol, signal.action, price, outcome) IN
    [pm |-> g.pm, ex |-> g.ex, entry |-> IF g.success THEN "success" ELSE "failed"]

(***************************************************************************)
(* ExitManager.  Times are in seconds, prices in tenths, percentages in    *)
(* hundredths of a percent.                                                *)
(***************************************************************************)
em_stop_loss_pct == 200
em_take_profit_pct == 300
max_hold_seconds == 7200
min_hold_seconds == 300
quick_profit_exit_threshold == 100
quick_profit_time_limit_seconds == 600

NoTime == -1
NoPrice == 0

\* ExitManager.__init__ and the two strategy values read at each call
DefaultExitConfig ==
    [stop_loss_pct |-> em_stop_loss_pct,
     take_profit_pct |-> em_take_profit_pct,
     max_hold_seconds |-> max_hold_seconds,
     min_hold_seconds |-> min_hold_seconds,
     quick_profit_threshold |-> quick_profit_exit_threshold,
     quick_profit_time_limit |-> quick_profit_time_limit_seconds]

\* (datetime.now() - entry_time).total_seconds()
time_in_position(position, t) == t - position.entry_time

check_stop_loss(cfg, position, current_price) ==
    IF position.entry_price = 0
    THEN NoValue
    ELSE IF PctAtMost(PnlDelta(position, current_price), position.entry_price,
                      -cfg.stop_loss_pct)
    THEN "stop_loss"
    ELSE NoValue

check_take_profit(cfg, position, current_price) ==
    IF position.entry_price = 0
    THEN NoValue
    ELSE IF PctAtLeast(PnlDelta(position, current_price), position.entry_price,
                       cfg.take_profit_pct)
    THEN "take_profit"
    ELSE NoValue

check_max_timing(cfg, position, t) ==
    IF position.entry_time = NoTime
    THEN NoValue
    ELSE IF time_in_position(position, t) >= cfg.max_hold_seconds
    THEN "max_timing"
    ELSE NoValue

check_quick_profit(cfg, position, current_price, t) ==
    IF position.entry_time = NoTime \/ position.entry_price = 0
    THEN NoValue
    ELSE IF time_in_position(position, t) < cfg.min_hold_seconds
    THEN NoValue
    ELSE IF /\ PctAtLeast(PnlDelta(position, current_price), position.entry_price,
                          cfg.quick_profit_threshold)
            /\ time_in_position(position, t) <= cfg.quick_profit_time_limit
    THEN "quick_profit"
    ELSE NoValue

\* a variant that looks at the hold time before the take profit
em_check_exit_conditions_timing_first(cfg, position, current_price, t) ==
    IF check_stop_loss(cfg, position, current_price) # NoValue
    THEN check_stop_loss(cfg, position, current_price)
    ELSE IF check_max_timing(cfg, position, t) # NoValue
    THEN check_max_timing(cfg, position, t)
    ELSE IF check_take_profit(cfg, position, current_price) # NoValue
    THEN check_take_profit(cfg, position, current_price)
    ELSE check_quick_profit(cfg, position, current_price, t)

\* ExitManager.check_exit_conditions: the type of the ExitCondition returned
em_check_exit_conditions(cfg, position, current_price, t) ==
    IF check_stop_loss(cfg, position, current_price) # NoValue
    THEN check_stop_loss(cfg, position, current_price)
    ELSE IF check_take_profit(cfg, position, current_price) # NoValue
    THEN check_take_profit(cfg, position, current_price)
    ELSE IF check_max_timing(cfg, position, t) # NoValue
    THEN check_max_timing(cfg, position, t)
    ELSE check_quick_profit(cfg, position, current_price, t)

(***************************************************************************)
(* TechnicalAnalysis timers, RegimeDetector and MarketAnalyzer.            *)
(* Times are in seconds since construction.                                *)
(***************************************************************************)
initial_wait_seconds == 30
cooldown_between_trades_seconds == 180
RegimeIntervalMinutes == 30
KeptRegimeHistory == 48
DurationWindow == 10
MinutesPerAnalysis == 60
TrendingMinScoreCut == 1
TrendingMinScoreFloor == 3

NewTA == [first_analysis_time |-> NoTime, last_signal_time |-> NoTime]

\* calculate_technical_indicators: under 30 candles it returns {}; otherwise
\* it stamps the first analysis
calculate_technical_indicators(t_a, t, enough_candles) ==
    IF ~enough_candles
    THEN [ta |-> t_a, ok |-> FALSE]
    ELSE [ta |-> [t_a EXCEPT !.first_analysis_time = IF @ = NoTime THEN t ELSE @],
          ok |-> TRUE]

\* TechnicalAnalysis.generate_trading_signal of an instance t_a at time t.
\* indicators_given: the caller passed a non-empty indicators dict.
ta_generate_trading_signal(t_a, scoring, t, indicators_given, enough_candles, symbol, current_positions, market) ==
    LET c == IF indicators_given
             THEN [ta |-> t_a, ok |-> TRUE]
             ELSE calculate_technical_indicators(t_a, t, enough_candles)
    IN
    IF ~c.ok
    THEN [ta |-> c.ta,
          signal |-> TradingSignal("hold", 0, "Indicadores insuficientes",
                                   NoScore, NoScore)]
    ELSE IF /\ c.ta.first_analysis_time # NoTime
            /\ t - c.ta.first_analysis_time < initial_wait_seconds
    THEN [ta |-> c.ta,
          signal |-> TradingSignal("hold", 0, "Periodo de aquecimento",
                                   NoScore, NoScore)]
    ELSE IF /\ c.ta.last_signal_time # NoTime
            /\ t - c.ta.last_signal_time < cooldown_between_trades_seconds
    THEN [ta |-> c.ta,
          signal |-> TradingSignal("hold", 0, "Cooldown ativo", NoScore, NoScore)]
    ELSE LET sig == generate_trading_signal_with(scoring, symbol, current_positions,
                                                 market)
         IN [ta |-> IF sig.action \in {"long", "short"}
                    THEN [c.ta EXCEPT !.last_signal_time = t]
                    ELSE c.ta,
             signal |-> sig]

\* RegimeDetector.  regime_history is the list kept for the one symbol
\* analysed (its regimes); last_analysis is the dict the queries read.
NoData == [regime |-> NoValue, series |-> 0]
NoAssessment ==
    [primary_regime |-> NoValue, series |-> 0, regime_duration_minutes |-> 0]

NewRD == [regime_history |-> << >>, last_analysis |-> EmptyDict]

Last(seq, n) == IF Len(seq) > n THEN SubSeq(seq, Len(seq) - n + 1, Len(seq)) ELSE seq

RECURSIVE ConsecutiveAtEnd(_, _)
ConsecutiveAtEnd(seq, regime) ==
    IF seq = << >> \/ seq[Len(seq)] # regime
    THEN 0
    ELSE 1 + ConsecutiveAtEnd(SubSeq(seq, 1, Len(seq) - 1), regime)

estimate_regime_duration(r_d, regime) ==
    ConsecutiveAtEnd(Last(r_d.regime_history, DurationWindow), regime) * MinutesPerAnalysis

update_regime_history(r_d, regime) ==
    [r_d EXCEPT !.regime_history = Last(Append(@, regime), KeptRegimeHistory)]

\* analyze_market_regime(symbol): data is what the three candle fetches
\* return; every field of the assessment but the duration is a function of
\* it, and is kept as the series itself
analyze_market_regime(r_d, data) ==
    IF data = NoData
    THEN [rd |-> r_d, analysis |-> NoAssessment]
    ELSE [rd |-> update_regime_history(r_d, data.regime),
          analysis |-> [primary_regime |-> data.regime, series |-> data.series,
                        regime_duration_minutes |->
                            estimate_regime_duration(r_d, data.regime)]]

get_current_regime(r_d, symbol) ==
    IF symbol \in DOMAIN r_d.last_analysis
    THEN r_d.last_analysis[symbol].primary_regime
    ELSE NoValue

\* time_since (minutes) >= interval_minutes, in seconds
should_analyze(r_d, symbol, interval_minutes, t) ==
    IF symbol \notin DOMAIN r_d.last_analysis
    THEN TRUE
    ELSE t - r_d.last_analysis[symbol].timestamp >= interval_minutes * 60

\* _adjust_config_for_regime, for a configuration without an ai_futures
\* section: a trend lowers both minimum scores by 1.0, not below 3.0
adjust_config_for_regime(analysis) ==
    IF analysis.primary_regime \in {"trending_up", "trending_down"}
    THEN [DefaultScoring EXCEPT
             !.min_score_long = Max(TrendingMinScoreFloor, @ - TrendingMinScoreCut),
             !.min_score_short = Max(TrendingMinScoreFloor, @ - TrendingMinScoreCut)]
    ELSE DefaultScoring

\* _apply_regime_filters for the trend and consolidation regimes; a trend
\* regime always has trend_strength > 0.6
apply_regime_filters(sig, analysis) ==
    IF sig.action = "hold"
    THEN sig
    ELSE IF analysis.primary_regime = "trending_up" /\ sig.action = "short"
    THEN [sig EXCEPT !.action = "hold", !.reason = "Contra tendencia"]
    ELSE IF analysis.primary_regime = "trending_down" /\ sig.action = "long"
    THEN [sig EXCEPT !.action = "hold", !.reason = "Contra tendencia"]
    ELSE sig

NoSignal == TradingSignal(NoValue, 0, NoValue, NoScore, NoScore)

\* RegimeDetector._determine_primary_regime.  Strengths, consistency and the
\* volatility percentile are in hundredths, the confidence returned in
\* ten-thousandths.
StrongTrend == 60
WeakTrend == 30
BreakoutMin == 100
BreakoutFull == 200
DefaultRegimeConfidence == 4000

\* a variant whose breakout confidence is not scaled by 0.8
determine_primary_regime_unscaled(trend_analysis, vol_analysis, breakout_analysis) ==
    IF /\ breakout_analysis.breakout_strength > BreakoutMin
       /\ breakout_analysis.breakout_type \in {"resistance", "support"}
    THEN [regime |-> IF breakout_analysis.breakout_type = "resistance"
                     THEN "breakout_up" ELSE "breakout_down",
          confidence |-> Min(breakout_analysis.breakout_strength, BreakoutFull) * 50]
    ELSE [regime |-> "consolidation", confidence |-> DefaultRegimeConfidence]

determine_primary_regime(trend_analysis, vol_analysis, breakout_analysis) ==
    IF /\ breakout_analysis.breakout_strength > BreakoutMin
       /\ breakout_analysis.breakout_type \in {"resistance", "support"}
    THEN [regime |-> IF breakout_analysis.breakout_type = "resistance"
                     THEN "breakout_up" ELSE "breakout_down",
          confidence |-> Min(breakout_analysis.breakout_strength, BreakoutFull) * 40]
    ELSE IF vol_analysis.regime = "high" /\ vol_analysis.expanding
    THEN [regime |-> "high_volatility", confidence |-> vol_analysis.vol_percentile * 70]
    ELSE IF trend_analysis.direction = "up" /\ trend_analysis.strength > StrongTrend
    THEN [regime |-> "trending_up",
          confidence |-> (trend_analysis.strength * trend_analysis.consistency
                          + 100 * trend_analysis.consistency) \div 2]
    ELSE IF trend_analysis.direction = "down" /\ trend_analysis.strength > StrongTrend
    THEN [regime |-> "trending_down",
          confidence |-> (trend_analysis.strength * trend_analysis.consistency
                          + 100 * trend_analysis.consistency) \div 2]
    ELSE IF trend_analysis.strength < WeakTrend /\ vol_analysis.regime \in {"normal", "low"}
    THEN (IF vol_analysis.regime = "low"
          THEN [regime |-> "low_volatility",
                confidence |-> (100 - trend_analysis.strength) * 80]
          ELSE [regime |-> "ranging",
                confidence |-> (100 - trend_analysis.strength) * 60])
    ELSE [regime |-> "consolidation", confidence |-> DefaultRegimeConfidence]

\* the fields of a RegimeAnalysis the filter reads
RegimeAnalysis(primary_regime, trend_strength, confidence) ==
    [primary_regime |-> primary_regime, trend_strength |-> trend_strength,
     confidence |-> confidence]

\* MarketAnalyzer._apply_regime_filters with every regime.  The signal's
\* confidence is in thousandths here, the regime's in ten-thousandths, rsi in
\* points and bb_position in hundredths.
StrongBreakoutConfidence == 8000
filter_min_confidence == 550
RsiLow == 35
RsiHigh == 65
BbLow == 25
BbHigh == 75
MaxConfidence == 950

\* a variant that turns a counter-trend signal round instead of dropping it
apply_regime_filters_flipping(signal, regime_analysis, indicators) ==
    IF signal.action = "hold"
    THEN signal
    ELSE IF regime_analysis.primary_regime = "trending_up" /\ signal.action = "short"
    THEN [signal EXCEPT !.action = "long"]
    ELSE IF regime_analysis.primary_regime = "trending_down" /\ signal.action = "long"
    THEN [signal EXCEPT !.action = "short"]
    ELSE signal

apply_regime_filters_scaling(signal, regime_analysis, indicators) ==
    LET regime == regime_analysis.primary_regime IN
    IF signal.action = "hold"
    THEN signal
    ELSE IF regime \in {"trending_up", "trending_down"}
    THEN (IF /\ \/ regime = "trending_up" /\ signal.action = "short"
                \/ regime = "trending_down" /\ signal.action = "long"
             /\ regime_analysis.trend_strength > StrongTrend
          THEN [signal EXCEPT !.action = "hold", !.reason = "Contra tendencia"]
          ELSE signal)
    ELSE IF regime = "high_volatility"
    THEN (IF signal.confidence * 8 * 10 < filter_min_confidence * 9 * 10
          THEN [signal EXCEPT !.confidence = (@ * 8) \div 10, !.action = "hold",
                              !.reason = "Baixa confianca em alta volatilidade"]
          ELSE [signal EXCEPT !.confidence = (@ * 8) \div 10])
    ELSE IF regime \in {"breakout_up", "breakout_down"}
    THEN (IF \/ regime = "breakout_up" /\ signal.action = "short"
             \/ regime = "breakout_down" /\ signal.action = "long"
          THEN (IF regime_analysis.confidence > StrongBreakoutConfidence
                THEN [signal EXCEPT !.action = "hold",
                                    !.reason = "Contra direcao do breakout"]
                ELSE [signal EXCEPT !.confidence = (@ * 7) \div 10])
          ELSE IF \/ regime = "breakout_up" /\ signal.action = "long"
                  \/ regime = "breakout_down" /\ signal.action = "short"
          THEN [signal EXCEPT !.confidence = Min(MaxConfidence, (@ * 12) \div 10),
                              !.reason = "breakout confirmation"]
          ELSE signal)
    ELSE IF regime \in {"ranging", "low_volatility"}
    THEN (IF \/ /\ signal.action = "long"
                /\ ~(indicators.rsi < RsiLow \/ indicators.bb_position < BbLow)
             \/ /\ signal.action = "short"
                /\ ~(indicators.rsi > RsiHigh \/ indicators.bb_position > BbHigh)
          THEN [signal EXCEPT !.confidence = (@ * 8) \div 10,
                              !.reason = "ranging - confianca reduzida"]
          ELSE signal)
    ELSE signal

\* MarketAnalyzer._generate_regime_aware_signal: without an assessment the
\* analyzer's own TechnicalAnalysis is asked; with one, a new
\* TechnicalAnalysis(adjusted_config) is built and asked
ma_generate_regime_aware_signal(t_a, t, symbol, analysis, market) ==
    IF analysis = NoAssessment
    THEN ta_generate_trading_signal(t_a, DefaultScoring, t, TRUE, TRUE, symbol,
                                    EmptyDict, market)
    ELSE LET r == ta_generate_trading_signal(NewTA, adjust_config_for_regime(analysis),
                                             t, TRUE, TRUE, symbol, EmptyDict, market)
         IN [ta |-> t_a, signal |-> apply_regime_filters(r.signal, analysis)]

\* MarketAnalyzer.analyze_market.  candles: "none" (no data), "few" (under 30
\* candles) or "enough"; can_trade: what should_trade_now answers.
ma_analyze_market(t_a, r_d, t, symbol, candles, can_trade, data, market) ==
    IF candles = "none" \/ ~can_trade
    THEN [ta |-> t_a, rd |-> r_d, signal |-> NoSignal, analysis |-> NoAssessment]
    ELSE LET g == IF should_analyze(r_d, symbol, RegimeIntervalMinutes, t)
                  THEN analyze_market_regime(r_d, data)
                  ELSE [rd |-> r_d, analysis |-> NoAssessment]
             c == calculate_technical_indicators(t_a, t, candles = "enough")
         IN IF ~c.ok
            THEN [ta |-> c.ta, rd |-> g.rd, signal |-> NoSignal, analysis |-> g.analysis]
            ELSE LET r == ma_generate_regime_aware_signal(c.ta, t, symbol, g.analysis,
                                                          market)
                 IN [ta |-> r.ta, rd |-> g.rd, signal |-> r.signal,
                     analysis |-> g.analysis]

(***************************************************************************)
(* KillSwitch (core/safety), as functions of the object                    *)
(***************************************************************************)
ks_max_loss_pct == 10
ks_max_consecutive == 5
ks_max_drawdown_pct == 15
AuthorizationCode == "RESET_AUTHORIZED"

NoTriggerData == [kind |-> NoValue, value |-> 0]

NewKS ==
    [active |-> FALSE, trigger_reason |-> NoValue, trigger_time |-> NoTime,
     trigger_data |-> NoTriggerData]

\* KillSwitch._trigger at time t
ks_trigger(k, t, reason, data) ==
    [active |-> TRUE, trigger_reason |-> reason, trigger_time |-> t,
     trigger_data |-> data]

\* KillSwitch.check_conditions(statistics), enabled by default
ks_check_conditions(k, t, stats) ==
    IF k.active
    THEN [ks |-> k, result |-> FALSE]
    ELSE IF /\ stats.total_pnl < 0
            /\ Abs(stats.total_pnl) * 100 >= ks_max_loss_pct * initial_balance_usdt
    THEN [ks |-> ks_trigger(k, t, "total_loss",
                            [kind |-> "total_pnl", value |-> stats.total_pnl]),
          result |-> TRUE]
    ELSE IF stats.consecutive_losses >= ks_max_consecutive
    THEN [ks |-> ks_trigger(k, t, "consecutive_losses",
                            [kind |-> "consecutive_losses",
                             value |-> stats.consecutive_losses]),
          result |-> TRUE]
    ELSE IF stats.current_drawdown * 100 >= ks_max_drawdown_pct * initial_balance_usdt
    THEN [ks |-> ks_trigger(k, t, "max_drawdown",
                            [kind |-> "drawdown_amount",
                             value |-> stats.current_drawdown]),
          result |-> TRUE]
    ELSE [ks |-> k, result |-> FALSE]

ks_trigger_manual(k, t) ==
    ks_trigger(k, t, "manual", [kind |-> "manual", value |-> 0])

\* KillSwitch.reset(authorization_code)
ks_reset(k, authorization_code) ==
    IF authorization_code # AuthorizationCode
    THEN [ks |-> k, result |-> FALSE]
    ELSE [ks |-> NewKS, result |-> TRUE]

\* KillSwitch.get_status, without the fixed thresholds
ks_get_status(k) ==
    [active |-> k.active, trigger_reason |-> k.trigger_reason,
     trigger_time |-> k.trigger_time, trigger_data |-> k.trigger_data]

\* should_close_by_timing with the default settings: the position is older
\* than strategy.max_position_hold_seconds.  The prolonged-loss (4 h) and
\* small-profit (12 h) criteria need a greater age and the week-end close is
\* off, so this criterion decides.  age is in seconds.
should_close_by_timing(age) == age > max_hold_seconds

(***************************************************************************)
(* Parts of the system that a specification leaves alone                   *)
(***************************************************************************)
NoCycle ==
    [had_position |-> FALSE, can_open |-> NoValue, signal |-> NoValue,
     open_invoked |-> FALSE, entry |-> NoValue, close |-> NoValue,
     forced_removal |-> FALSE, price |-> NoPrice, too_old |-> FALSE,
     close_reason |-> NoValue, ready |-> FALSE, managed |-> FALSE]

\* RiskManager(config) for the default configuration, left idle
DefaultConfig ==
    [stop_loss_enabled |-> TRUE, trailing_enabled |-> TRUE,
     take_profit_enabled |-> TRUE, max_daily_trades |-> DefaultMaxDailyTrades,
     kill_switch_enabled |-> TRUE]

NoRiskManager ==
    /\ config = DefaultConfig
    /\ SetInit
    /\ today = 0

NoBot ==
    /\ bot = NoValue
    /\ pm_positions = EmptyDict
    /\ exchange_positions = EmptyDict
    /\ cycle = NoCycle

NoTracker ==
    /\ tracker_positions = EmptyDict
    /\ position_history = 0
    /\ max_concurrent = DefaultMaxConcurrent

NoExitManager ==
    /\ em_config = DefaultExitConfig
    /\ em_position = [side |-> "LONG", entry_price |-> 0, entry_time |-> NoTime]
    /\ em_price = NoPrice
    /\ now = 0

NoHeld ==
    /\ held = NoPosition
    /\ check_price = NoPrice
    /\ best_seen = NoPrice

NoRequest ==
    [market |-> [long_score |-> 0, short_score |-> 0, exit_score |-> 0],
     has_position |-> FALSE, scored |-> FALSE]

NoAnalyzer ==
    /\ ta = NewTA
    /\ rd = NewRD
    /\ request = NoRequest
    /\ last_signal = NoSignal
    /\ assessment = NoAssessment
    /\ assessed_at = NoTime
    /\ last_directional = NoTime

NoKillSwitch == ks = NewKS

NoCall ==
    /\ call_args = NoValue
    /\ call_result = NoValue
    /\ ma_config = EmptyDict
    /\ sc_position = NoValue

NoComponents ==
    /\ NoExitManager
    /\ NoHeld
    /\ NoAnalyzer
    /\ NoKillSwitch
    /\ NoCall

(***************************************************************************)
(* The RiskManager driven through its public methods                       *)
(***************************************************************************)
Positions == [symbol : Symbols, side : Sides, entry_price : {1000}]
Trades == [pnl : PnLs, symbol : Symbols, side : TradeSides]

\* (signal, indicators) pairs, one for each way validate_signal can end
SignalInputs ==
    {<<[action |-> "long", confidence |-> 50], [volatility |-> 2, rsi |-> 50]>>,
     <<[action |-> "long", confidence |-> 70], [volatility |-> 6, rsi |-> 50]>>,
     <<[action |-> "long", confidence |-> 70], [volatility |-> 2, rsi |-> 90]>>,
     <<[action |-> "short", confidence |-> 70], [volatility |-> 2, rsi |-> 10]>>,
     <<[action |-> "short", confidence |-> 70], [volatility |-> 2, rsi |-> 50]>>}

\* configurations with the default daily trade cap
DefaultCapConfigs == {c \in Configs : c.max_daily_trades = DefaultMaxDailyTrades}

Init ==
    /\ config \in DefaultCapConfigs
    /\ SetInit
    /\ today = 0
    /\ lastOp = "init"
    /\ lastResult = FALSE
    /\ lastReason = NoValue
    /\ NoBot
    /\ NoTracker
    /\ NoComponents

Returned(op, result, reason) ==
    /\ lastOp' = op
    /\ lastResult' = result
    /\ lastReason' = reason

CanOpenPosition ==
    LET r == can_open_position(RM, config, today) IN
    /\ SetRM(r.rm)
    /\ Returned("can_open_position", r.result, r.reason)
    /\ UNCHANGED <<config, today, botVars, trackerVars, componentVars>>

ValidateSignal ==
    \E in \in SignalInputs :
        LET r == validate_signal(RM, config, today, in[1], in[2]) IN
        /\ SetRM(r.rm)
        /\ Returned("validate_signal", r.result, NoValue)
        /\ UNCHANGED <<config, today, botVars, trackerVars, componentVars>>

CheckExitConditions ==
    \E position \in Positions \cup {NoPosition}, current_price \in Prices :
        LET r == check_exit_conditions(RM, config, position, current_price) IN
        /\ SetRM(r.rm)
        /\ Returned("check_exit_conditions", r.reason # NoValue, r.reason)
        /\ UNCHANGED <<config, today, botVars, trackerVars, componentVars>>

UpdateStatistics ==
    /\ statistics.total_trades < TradesAtStart + MaxTrades
    /\ \E trade \in Trades :
        /\ SetRM(update_statistics(RM, config, today, trade))
        /\ Returned("update_statistics", FALSE, NoValue)
    /\ UNCHANGED <<config, today, botVars, trackerVars, componentVars>>

GetStatistics ==
    /\ SetRM(get_statistics(RM, today))
    /\ Returned("get_statistics", FALSE, NoValue)
    /\ UNCHANGED <<config, today, botVars, trackerVars, componentVars>>

\* get_risk_summary reads the fields and then calls can_open_position
GetRiskSummary ==
    LET r == can_open_position(RM, config, today) IN
    /\ SetRM(r.rm)
    /\ Returned("get_risk_summary", r.result, r.reason)
    /\ UNCHANGED <<config, today, botVars, trackerVars, componentVars>>

ResetKillSwitch ==
    /\ SetRM(reset_kill_switch(RM))
    /\ Returned("reset_kill_switch", FALSE, NoValue)
    /\ UNCHANGED <<config, today, botVars, trackerVars, componentVars>>

\* the wall clock passes midnight
DateRollover ==
    /\ today < MaxDay
    /\ today' = today + 1
    /\ UNCHANGED <<riskVars, lastOp, lastResult, lastReason, botVars, trackerVars, componentVars>>

Next ==
    \/ CanOpenPosition
    \/ ValidateSignal
    \/ CheckExitConditions
    \/ UpdateStatistics
    \/ GetStatistics
    \/ GetRiskSummary
    \/ ResetKillSwitch
    \/ DateRollover

Spec == Init /\ [][Next]_vars

(***************************************************************************)
(* The same RiskManager late on a busy day: WarmTrades winning trades have *)
(* already been recorded today under the default daily cap.                *)
(***************************************************************************)
InitBusyDay ==
    /\ config \in DefaultCapConfigs
    /\ kill_switch_triggered = BusyDayRM.kill_switch_triggered
    /\ daily_trade_count = BusyDayRM.daily_trade_count
    /\ daily_pnl = BusyDayRM.daily_pnl
    /\ last_reset_date = BusyDayRM.last_reset_date
    /\ statistics = BusyDayRM.statistics
    /\ trailing_stops = BusyDayRM.trailing_stops
    /\ today = 0
    /\ lastOp = "init"
    /\ lastResult = FALSE
    /\ lastReason = NoValue
    /\ NoBot
    /\ NoTracker
    /\ NoComponents

SpecBusyDay == InitBusyDay /\ [][Next]_vars

(***************************************************************************)
(* The PositionTracker driven through its public methods                   *)
(***************************************************************************)
InitTracker ==
    /\ NoRiskManager
    /\ NoBot
    /\ NoComponents
    /\ tracker_positions = EmptyDict
    /\ position_history = 0
    /\ max_concurrent \in {DefaultMaxConcurrent, DefaultMaxConcurrent + 1}
    /\ lastOp = "init"
    /\ lastResult = FALSE
    /\ lastReason = NoValue

\* lastReason records the symbol the call was made for
AddPosition ==
    \E symbol \in TrackerSymbols, position_data \in PositionData :
        LET r == add_position(Tracker, max_concurrent, symbol, position_data) IN
        /\ SetTracker(r.t)
        /\ Returned("add_position", r.result, symbol)
        /\ UNCHANGED <<riskVars, today, botVars, max_concurrent, componentVars>>

UpdatePosition ==
    \E symbol \in TrackerSymbols, updates \in PositionData :
        LET r == update_position(Tracker, symbol, updates) IN
        /\ SetTracker(r.t)
        /\ Returned("update_position", r.result, symbol)
        /\ UNCHANGED <<riskVars, today, botVars, max_concurrent, componentVars>>

RemovePosition ==
    \E symbol \in TrackerSymbols :
        LET r == remove_position(Tracker, symbol) IN
        /\ SetTracker(r.t)
        /\ Returned("remove_position", r.result, symbol)
        /\ UNCHANGED <<riskVars, today, botVars, max_concurrent, componentVars>>

NextTracker ==
    \/ AddPosition
    \/ UpdatePosition
    \/ RemovePosition

SpecTracker == InitTracker /\ [][NextTracker]_vars

(***************************************************************************)
(* The trading cycle of the two bots                                       *)
(***************************************************************************)
BotSymbol == "BTC-USDT"
EntryPrices == {1000}
PositionAges == {max_hold_seconds, max_hold_seconds + 1}

Markets ==
    {[long_score |-> 5, short_score |-> 0, exit_score |-> 0],
     [long_score |-> 0, short_score |-> 5, exit_score |-> 0],
     [long_score |-> 0, short_score |-> 0, exit_score |-> 4],
     [long_score |-> 0, short_score |-> 0, exit_score |-> 0]}

EntryIndicators == {[volatility |-> 2, rsi |-> 50], [volatility |-> 6, rsi |-> 50]}

\* configurations with the small daily trade cap
SmallCapConfigs == {c \in Configs : c.max_daily_trades = SmallDailyCap}

InitBot ==
    /\ config \in SmallCapConfigs
    /\ SetInit
    /\ today = 0
    /\ bot \in {"basic", "integrated"}
    /\ pm_positions = EmptyDict
    /\ exchange_positions = EmptyDict
    /\ cycle = NoCycle
    /\ NoTracker
    /\ NoComponents
    /\ lastOp = "init"
    /\ lastResult = FALSE
    /\ lastReason = NoValue

\* the cycle returns: what it left behind
Finish(rm, pm, ex, c) ==
    /\ SetRM(rm)
    /\ pm_positions' = pm
    /\ exchange_positions' = ex
    /\ cycle' = c
    /\ Returned("run_trading_cycle", FALSE, NoValue)
    /\ UNCHANGED <<config, today, bot, trackerVars, componentVars>>

ExecuteExit(rm, c, partial) ==
    \E res \in CloseResults :
        LET r == execute_exit(bot, rm, config, today, pm_positions,
                              exchange_positions, BotSymbol, partial, res)
        IN Finish(r.rm, r.pm, r.ex,
                  [c EXCEPT !.close = r.close, !.forced_removal = r.forced])

\* the market analysis run while a position is managed, and the exit on a
\* close_ signal whose confidence reaches the bot's threshold
TechnicalExit(rm, c, threshold) ==
    \E market \in Markets :
        LET signal == analyze_market(BotSymbol, market)
            c1 == [c EXCEPT !.signal = signal.action]
        IN IF /\ signal.action \in {"close_long", "close_short"}
              /\ signal.confidence >= threshold
           THEN ExecuteExit(rm, [c1 EXCEPT !.close_reason = "Sinal tecnico"], FALSE)
           ELSE Finish(rm, pm_positions, exchange_positions, c1)

\* BingXFuturesBotIntegrated._manage_existing_position
ManageExistingPositionIntegrated(c) ==
    \E current_price \in Prices \cup {NoPrice} :
        IF current_price = NoPrice
        THEN Finish(RM, pm_positions, exchange_positions, c)
        ELSE \E age \in PositionAges :
            LET c1 == [c EXCEPT !.price = current_price,
                                !.too_old = age > max_hold_seconds] IN
            IF should_close_by_timing(age)
            THEN ExecuteExit(RM, [c1 EXCEPT !.close_reason = "timing"], FALSE)
            ELSE LET r == check_exit_conditions(RM, config, pm_positions[BotSymbol],
                                                current_price)
                 IN IF r.reason # NoValue
                    THEN ExecuteExit(r.rm, [c1 EXCEPT !.close_reason = r.reason], FALSE)
                    ELSE \E take_profit \in {"none", "partial", "full"} :
                        IF take_profit = "partial"
                        THEN ExecuteExit(r.rm,
                                 [c1 EXCEPT !.close_reason = "Take profit parcial"], TRUE)
                        ELSE IF take_profit = "full"
                        THEN ExecuteExit(r.rm,
                                 [c1 EXCEPT !.close_reason = "Take profit total"], FALSE)
                        ELSE TechnicalExit(r.rm, c1, ExitConfidenceThreshold)

\* BingXFuturesBot._manage_existing_position
ManageExistingPositionBasic(c) ==
    \E current_price \in Prices \cup {NoPrice} :
        IF current_price = NoPrice
        THEN Finish(RM, pm_positions, exchange_positions, c)
        ELSE LET r == check_exit_conditions(RM, config, pm_positions[BotSymbol],
                                            current_price)
             IN IF r.reason # NoValue
                THEN ExecuteExit(r.rm, [c EXCEPT !.price = current_price,
                                                 !.close_reason = r.reason], FALSE)
                ELSE TechnicalExit(r.rm, [c EXCEPT !.price = current_price], 0)

\* _check_entry_opportunity, the same in both bots
CheckEntryOpportunity(c) ==
    LET r == can_open_position(RM, config, today)
        c1 == [c EXCEPT !.can_open = IF r.result THEN "True" ELSE "False"]
    IN
    IF ~r.result
    THEN Finish(r.rm, pm_positions, exchange_positions, c1)
    ELSE \E pm_can_open \in BOOLEAN :
        IF ~pm_can_open
        THEN Finish(r.rm, pm_positions, exchange_positions, c1)
        ELSE \E market \in Markets :
            LET signal == analyze_market(BotSymbol, market)
                c2 == [c1 EXCEPT !.signal = signal.action]
            IN
            IF signal.action \notin {"long", "short"}
            THEN Finish(r.rm, pm_positions, exchange_positions, c2)
            ELSE \E indicators \in EntryIndicators :
                LET v == validate_signal(r.rm, config, today, signal, indicators) IN
                IF ~v.result
                THEN Finish(v.rm, pm_positions, exchange_positions, c2)
                ELSE \E price \in EntryPrices, outcome \in OpenResults :
                    LET e == execute_entry(pm_positions, exchange_positions,
                                           BotSymbol, signal, price, outcome)
                    IN Finish(v.rm, e.pm, e.ex,
                              [c2 EXCEPT !.open_invoked = TRUE, !.entry = e.entry])

\* run_trading_cycle.  ready: the warm-up is over and the analysis interval
\* has elapsed.  Only the integrated bot returns on an active kill switch.
\* The cycle record keeps whether _manage_existing_position was entered: it
\* evaluates the exit conditions as soon as it has a price.
RunTradingCycle ==
    /\ bot # NoValue
    /\ has_position(pm_positions, BotSymbol) => statistics.total_trades < MaxTrades
    /\ LET c == [NoCycle EXCEPT !.had_position = has_position(pm_positions, BotSymbol)] IN
       \E ready \in BOOLEAN :
           IF ~ready
           THEN Finish(RM, pm_positions, exchange_positions, c)
           ELSE IF bot = "integrated" /\ is_kill_switch_active(RM)
           THEN Finish(RM, pm_positions, exchange_positions, [c EXCEPT !.ready = TRUE])
           ELSE IF has_position(pm_positions, BotSymbol)
           THEN (IF bot = "integrated"
                 THEN ManageExistingPositionIntegrated(
                          [c EXCEPT !.ready = TRUE, !.managed = TRUE])
                 ELSE ManageExistingPositionBasic(
                          [c EXCEPT !.ready = TRUE, !.managed = TRUE]))
           ELSE CheckEntryOpportunity([c EXCEPT !.ready = TRUE])

NextBot ==
    \/ RunTradingCycle
    \/ DateRollover

SpecBot == InitBot /\ [][NextBot]_vars

(***************************************************************************)
(* Closing, for symbols with and without a position: the tracker, the      *)
(* adapter over the gateway, and the basic bot's _execute_exit             *)
(***************************************************************************)
MaxRemovals == 2        \* entries filed in the tracker's history in one run
MaxCloses == 1          \* trades the basic bot records in one run

CloseSymbols == {"BTC-USDT", "ETH-USDT"}

InitClose ==
    /\ NoRiskManager
    /\ NoBot
    /\ NoTracker
    /\ NoComponents
    /\ lastOp = "init"
    /\ lastResult = FALSE
    /\ lastReason = NoValue

\* the cycle record keeps whether the symbol had a position when the close
\* was asked for, and how the close ended
CloseAsked(symbol, outcome) ==
    cycle' = [NoCycle EXCEPT !.had_position = has_position(pm_positions, symbol),
                             !.close = outcome]

OpenAtGateway ==
    /\ UNCHANGED <<riskVars, today, bot, cycle, trackerVars, componentVars>>
    /\ \E symbol \in CloseSymbols, action \in {"long"}, price \in EntryPrices,
          outcome \in OpenResults :
        LET g == open_position(pm_positions, exchange_positions, symbol, action, price,
                               outcome)
        IN /\ ~has_position(pm_positions, symbol)
           /\ pm_positions' = g.pm
           /\ exchange_positions' = g.ex
           /\ Returned("open_position", g.success, symbol)

TrackPosition ==
    /\ UNCHANGED <<riskVars, today, botVars, max_concurrent, componentVars>>
    /\ \E symbol \in CloseSymbols :
        LET r == add_position(Tracker, max_concurrent, symbol, [size |-> 1]) IN
        /\ SetTracker(r.t)
        /\ Returned("add_position", r.result, symbol)

UntrackPosition ==
    /\ position_history < MaxRemovals
    /\ UNCHANGED <<riskVars, today, botVars, max_concurrent, componentVars>>
    /\ \E symbol \in CloseSymbols :
        LET r == remove_position(Tracker, symbol) IN
        /\ SetTracker(r.t)
        /\ Returned("remove_position", r.result, symbol)

AdapterClosePosition ==
    /\ UNCHANGED <<riskVars, today, bot, trackerVars, componentVars>>
    /\ \E symbol \in CloseSymbols, res \in CloseResults :
        LET g == adapter_close_position(pm_positions, exchange_positions, symbol,
                                        FALSE, res)
        IN /\ pm_positions' = g.pm
           /\ exchange_positions' = g.ex
           /\ CloseAsked(symbol, IF g.success THEN "success" ELSE "failed")
           /\ Returned("close_position", g.success, symbol)

ExecuteExitBasic ==
    /\ UNCHANGED <<config, today, bot, trackerVars, componentVars>>
    /\ \E symbol \in CloseSymbols, res \in CloseResults :
        LET r == execute_exit_basic(RM, config, today, pm_positions,
                                    exchange_positions, symbol, FALSE, res)
        IN /\ has_position(pm_positions, symbol) => statistics.total_trades < MaxCloses
           /\ SetRM(r.rm)
           /\ pm_positions' = r.pm
           /\ exchange_positions' = r.ex
           /\ CloseAsked(symbol, r.close)
           /\ Returned("_execute_exit", r.close = "success", symbol)

NextClose ==
    \/ OpenAtGateway
    \/ TrackPosition
    \/ UntrackPosition
    \/ AdapterClosePosition
    \/ ExecuteExitBasic

SpecClose == InitClose /\ [][NextClose]_vars

(***************************************************************************)
(* The two holders of kill-switch state: the KillSwitch object and the     *)
(* RiskManager, fed the same trades                                        *)
(***************************************************************************)
SafetyTimes == {0, 60}

ResetCodes == {NoValue, AuthorizationCode, "reset"}

InitSafety ==
    /\ NoRiskManager
    /\ NoBot
    /\ NoTracker
    /\ NoComponents
    /\ lastOp = "init"
    /\ lastResult = FALSE
    /\ lastReason = NoValue

safetyRest == <<riskVars, today, botVars, trackerVars, exitVars, heldVars, analyzerVars,
                callVars>>

KsCheckConditions ==
    /\ UNCHANGED safetyRest
    /\ LET r == ks_check_conditions(ks, now, statistics) IN
       /\ ks' = r.ks
       /\ Returned("KillSwitch.check_conditions", r.result, r.ks.trigger_reason)

KsTriggerManual ==
    /\ UNCHANGED safetyRest
    /\ ks' = ks_trigger_manual(ks, now)
    /\ Returned("KillSwitch.trigger_manual", FALSE, "manual")

\* lastReason records the authorization code the call carried
KsReset ==
    /\ UNCHANGED safetyRest
    /\ \E authorization_code \in ResetCodes :
        LET r == ks_reset(ks, authorization_code) IN
        /\ ks' = r.ks
        /\ Returned("KillSwitch.reset", r.result, authorization_code)

KsGetStatus ==
    /\ UNCHANGED <<safetyRest, ks>>
    /\ Returned("KillSwitch.get_status", ks_get_status(ks).active,
                ks_get_status(ks).trigger_reason)

SafetyTimePasses ==
    /\ \E t \in SafetyTimes : t > now /\ now' = t
    /\ UNCHANGED <<riskVars, today, botVars, trackerVars, em_config, em_position,
                   em_price, heldVars, analyzerVars, safetyVars, callVars, lastOp, lastResult,
                   lastReason>>

NextSafety ==
    \/ UpdateStatistics
    \/ ResetKillSwitch
    \/ KsCheckConditions
    \/ KsTriggerManual
    \/ KsReset
    \/ KsGetStatus
    \/ SafetyTimePasses

SpecSafety == InitSafety /\ [][NextSafety]_vars

(***************************************************************************)
(* The regime filter, applied once to a signal: with an assessment that    *)
(* the classifier produces from its three analyses, or with any assessment *)
(***************************************************************************)
Regimes ==
    {"trending_up", "trending_down", "ranging", "high_volatility", "low_volatility",
     "breakout_up", "breakout_down", "consolidation"}

FilterSignals ==
    [action : {"long", "short", "hold", "close_long"}, confidence : {610, 770},
     reason : {"reasons"}]

FilterIndicators == [rsi : {30, 50, 70}, bb_position : {50}]

TrendAnalyses == [direction : {"up", "down", "sideways"}, strength : {20, 61},
                  consistency : {100}]
VolAnalyses == [regime : {"high", "normal", "low"}, expanding : BOOLEAN,
                vol_percentile : {90}]
BreakoutAnalyses == [breakout_strength : {100, 101, 200, 300},
                     breakout_type : {"resistance", "support", "none"}]

\* a call with the three analyses the classifier starts from
ClassifiedCalls ==
    [signal : FilterSignals, indicators : {[rsi |-> 50, bb_position |-> 50]},
     trend : TrendAnalyses, vol : VolAnalyses, breakout : BreakoutAnalyses,
     classified : {TRUE}]

\* a call with an assessment given as it is
DirectCalls ==
    [signal : FilterSignals, indicators : FilterIndicators,
     regime_analysis : {RegimeAnalysis(r, t, c) :
                           r \in Regimes, t \in {StrongTrend, StrongTrend + 1},
                           c \in {StrongBreakoutConfidence, StrongBreakoutConfidence + 1}},
     classified : {FALSE}]

InitFilter ==
    /\ NoRiskManager
    /\ NoBot
    /\ NoTracker
    /\ NoExitManager
    /\ NoHeld
    /\ NoAnalyzer
    /\ NoKillSwitch
    /\ call_args \in ClassifiedCalls \cup DirectCalls
    /\ call_result = NoValue
    /\ ma_config = EmptyDict
    /\ sc_position = NoValue
    /\ lastOp = "init"
    /\ lastResult = FALSE
    /\ lastReason = NoValue

callRest == <<riskVars, today, botVars, trackerVars, exitVars, heldVars, analyzerVars,
              safetyVars>>

\* analyze_market_regime builds the assessment, _apply_regime_filters gets it
ClassifyAndFilter ==
    /\ lastOp = "init"
    /\ call_args.classified
    /\ UNCHANGED <<callRest, call_args, ma_config, sc_position>>
    /\ LET p == determine_primary_regime(call_args.trend, call_args.vol,
                                         call_args.breakout)
           a == RegimeAnalysis(p.regime, call_args.trend.strength, p.confidence)
           r == apply_regime_filters_scaling(call_args.signal, a, call_args.indicators)
       IN /\ call_result' = [regime_analysis |-> a, signal |-> r]
          /\ Returned("_apply_regime_filters", r.action # "hold", r.reason)

ApplyRegimeFilters ==
    /\ lastOp = "init"
    /\ ~call_args.classified
    /\ UNCHANGED <<callRest, call_args, ma_config, sc_position>>
    /\ LET a == call_args.regime_analysis
           r == apply_regime_filters_scaling(call_args.signal, a, call_args.indicators)
       IN /\ call_result' = [regime_analysis |-> a, signal |-> r]
          /\ Returned("_apply_regime_filters", r.action # "hold", r.reason)

NextFilter ==
    \/ ClassifyAndFilter
    \/ ApplyRegimeFilters

SpecFilter == InitFilter /\ [][NextFilter]_vars

(***************************************************************************)
(* MarketAnalyzer._adjust_config_for_regime over the analyzer's dict.      *)
(* Scores are in tenths of a point.  self.config.copy() copies the top     *)
(* level only: an ai_futures section the configuration already has is the  *)
(* same object in the copy and in self.config.                             *)
(***************************************************************************)
DictGet(d, k, default) == IF k \in DOMAIN d THEN d[k] ELSE default

ConfiguredMinScore == 40
TrendFloor == 30
TrendCut == 10
VolatileCap == 70
VolatileRaise == 15
LowerRsiOversold == 25
HigherRsiOverbought == 75
RangingOversold == 20
RangingOverbought == 80

\* recommendations['indicator_adjustments'] of the regime
indicator_adjustments(regime) ==
    IF regime = "trending_up"
    THEN DictSet(EmptyDict, "lower_rsi_oversold", LowerRsiOversold)
    ELSE IF regime = "trending_down"
    THEN DictSet(EmptyDict, "higher_rsi_overbought", HigherRsiOverbought)
    ELSE EmptyDict

\* the writes into adjusted_config['ai_futures'], in the order of the code
adjusted_ai_futures(section, regime) ==
    LET adj == indicator_adjustments(regime)
        s1 == IF "lower_rsi_oversold" \in DOMAIN adj
              THEN DictSet(section, "rsi",
                           DictSet(DictGet(section, "rsi", EmptyDict), "oversold_level",
                                   adj["lower_rsi_oversold"]))
              ELSE section
        s2 == IF "higher_rsi_overbought" \in DOMAIN adj
              THEN DictSet(s1, "rsi",
                           DictSet(DictGet(s1, "rsi", EmptyDict), "overbought_level",
                                   adj["higher_rsi_overbought"]))
              ELSE s1
        scoring == DictGet(s2, "scoring", EmptyDict)
        current_min_long == DictGet(scoring, "min_score_long", ConfiguredMinScore)
        current_min_short == DictGet(scoring, "min_score_short", ConfiguredMinScore)
        rsi == DictGet(s2, "rsi", EmptyDict)
    IN IF regime \in {"trending_up", "trending_down"}
       THEN DictSet(s2, "scoring",
                    DictSet(DictSet(scoring, "min_score_long",
                                    Max(TrendFloor, current_min_long - TrendCut)),
                            "min_score_short", Max(TrendFloor, current_min_short - TrendCut)))
       ELSE IF regime = "high_volatility"
       THEN DictSet(s2, "scoring",
                    DictSet(DictSet(scoring, "min_score_long",
                                    Min(VolatileCap, current_min_long + VolatileRaise)),
                            "min_score_short",
                            Min(VolatileCap, current_min_short + VolatileRaise)))
       ELSE IF regime = "ranging"
       THEN DictSet(s2, "rsi",
                    DictSet(DictSet(rsi, "oversold_level", RangingOversold),
                            "overbought_level", RangingOverbought))
       ELSE s2

\* adjusted: the dict returned; own: self.config when the call returns
adjust_config(own_config, regime) ==
    LET section == adjusted_ai_futures(DictGet(own_config, "ai_futures", EmptyDict), regime)
        touched == section # DictGet(own_config, "ai_futures", EmptyDict)
        shared == "ai_futures" \in DOMAIN own_config
    IN [adjusted |-> IF shared \/ touched
                     THEN DictSet(own_config, "ai_futures", section)
                     ELSE own_config,
        own |-> IF shared THEN DictSet(own_config, "ai_futures", section) ELSE own_config]

\* TechnicalAnalysis._get_config('ai_futures.scoring.min_score_long', 4.0)
min_score_long_of(cfg) ==
    DictGet(DictGet(DictGet(cfg, "ai_futures", EmptyDict), "scoring", EmptyDict),
            "min_score_long", ConfiguredMinScore)

min_score_short_of(cfg) ==
    DictGet(DictGet(DictGet(cfg, "ai_futures", EmptyDict), "scoring", EmptyDict),
            "min_score_short", ConfiguredMinScore)

(***************************************************************************)
(* Successive analysis cycles of one MarketAnalyzer                        *)
(***************************************************************************)
ScoringSections ==
    {EmptyDict} \cup
    {DictSet(DictSet(EmptyDict, "min_score_long", l), "min_score_short", s) :
         l \in {40, 60}, s \in {40, 60}}

\* no ai_futures section, an empty one, and one with a scoring section
AnalyzerConfigs ==
    {EmptyDict, DictSet(EmptyDict, "ai_futures", EmptyDict)} \cup
    {DictSet(EmptyDict, "ai_futures", DictSet(EmptyDict, "scoring", sc)) :
         sc \in ScoringSections}

InitConfig ==
    /\ NoRiskManager
    /\ NoBot
    /\ NoTracker
    /\ NoExitManager
    /\ NoHeld
    /\ NoAnalyzer
    /\ NoKillSwitch
    /\ ma_config \in AnalyzerConfigs
    /\ sc_position = NoValue
    /\ call_args = NoValue
    /\ call_result = NoValue
    /\ lastOp = "init"
    /\ lastResult = FALSE
    /\ lastReason = NoValue

\* _generate_regime_aware_signal up to the construction of temp_ta
AdjustConfigForRegime ==
    /\ UNCHANGED <<callRest, sc_position>>
    /\ \E regime \in Regimes :
          LET r == adjust_config(ma_config, regime)
          IN /\ call_args' = [regime |-> regime]
             /\ call_result' = r.adjusted
             /\ ma_config' = r.own
             /\ Returned("_adjust_config_for_regime", TRUE, NoValue)

NextConfig ==
    \/ AdjustConfigForRegime

SpecConfig == InitConfig /\ [][NextConfig]_vars

(***************************************************************************)
(* IntelligentPositionScaling.  Sizes and percentages are in thousandths,  *)
(* prices in hundredths, P&L in hundredths of a percent, scores in         *)
(* hundredths of a point, confidences in ten-thousandths, ages in minutes. *)
(* Of a reason only its first part is kept.                                *)
(***************************************************************************)
ScaleOutMinPnl == 80
ScaleOutPnlCap == 2500
ScaleInThreshold == 1500
ScaleInMaxLoss == -150
ScaleInMaxAge == 120
ManyScaleIns == 2
ManyScaleInsPenalty == 1500
SomeScaleInsPenalty == 800
MinScalingConfidence == 6000
max_position_multiplier == 2

\* _calculate_pnl_pct
calculate_pnl_pct(position, current_price) ==
    IF position.side = "long"
    THEN ((current_price - position.entry_price) * 10000) \div position.entry_price
    ELSE ((position.entry_price - current_price) * 10000) \div position.entry_price

near_important_level(side, indicators) ==
    IF side = "long" THEN indicators.bb_position > 85 ELSE indicators.bb_position < 15

analyze_scale_out_opportunities(position, current_pnl, market_conditions, indicators) ==
    LET pct0 == IF current_pnl < ScaleOutMinPnl THEN 0
                ELSE IF current_pnl >= 300 THEN 800
                ELSE IF current_pnl >= 200 THEN 600
                ELSE IF current_pnl >= 150 THEN 400
                ELSE 250
        pnl_score == IF current_pnl >= ScaleOutMinPnl
                     THEN Min(current_pnl * 8, ScaleOutPnlCap) ELSE 0
        ind_score ==
            IF position.side = "long"
            THEN (IF indicators.rsi > 75 \/ indicators.bb_position > 85 THEN 1500
                  ELSE IF indicators.rsi > 70 \/ indicators.bb_position > 80 THEN 1000
                  ELSE 0)
            ELSE (IF indicators.rsi < 25 \/ indicators.bb_position < 15 THEN 1500
                  ELSE IF indicators.rsi < 30 \/ indicators.bb_position < 20 THEN 1000
                  ELSE 0)
        wild == market_conditions.current_volatility > 40 /\ current_pnl > 100
        ranging == market_conditions.regime = "ranging" /\ current_pnl > 80
        score == pnl_score + ind_score + (IF wild THEN 1200 ELSE 0)
                 + (IF ranging THEN 1000 ELSE 0)
                 + (IF near_important_level(position.side, indicators) THEN 800 ELSE 0)
    IN [score |-> score,
        percentage |-> IF wild THEN Min((pct0 * 13) \div 10, 900) ELSE pct0,
        confidence |-> Min((score * 100) \div 40, 9500),
        reason |-> IF pct0 > 0 THEN "Scale out" ELSE ""]

is_healthy_pullback(position, current_price, indicators) ==
    LET pullback_pct == Abs(((current_price - position.entry_price) * 10000)
                            \div position.entry_price)
    IN /\ ~(pullback_pct > 300 \/ pullback_pct < 30)
       /\ IF position.side = "long"
          THEN 25 < indicators.rsi /\ indicators.rsi < 45
          ELSE 55 < indicators.rsi /\ indicators.rsi < 75
       /\ IF position.side = "long"
          THEN indicators.macd_histogram > -5 \/ indicators.macd_histogram_rising
          ELSE indicators.macd_histogram < 5 \/ ~indicators.macd_histogram_rising

is_breakout_confirmation(side, indicators, market_conditions) ==
    /\ ~(market_conditions.volume_ratio < 120)
    /\ IF side = "long"
       THEN indicators.bb_position > 60 /\ indicators.momentum_bullish
       ELSE indicators.bb_position < 40 /\ indicators.momentum_bearish

is_level_defended(side, indicators) ==
    IF side = "long"
    THEN indicators.bb_position < 25 /\ indicators.rsi > 25 /\ indicators.rsi_rising
    ELSE indicators.bb_position > 75 /\ indicators.rsi < 75 /\ ~indicators.rsi_rising

NoScaleIn(current_price) ==
    [score |-> 0, percentage |-> 0, confidence |-> 0, reason |-> "",
     optimal_price |-> current_price, risk_level |-> "medium"]

analyze_scale_in_opportunities(position, current_price, current_pnl, age, market_conditions, indicators) ==
    IF current_pnl < ScaleInMaxLoss \/ age > ScaleInMaxAge
    THEN NoScaleIn(current_price)
    ELSE LET kind == IF is_healthy_pullback(position, current_price, indicators)
                     THEN "pullback"
                     ELSE IF is_breakout_confirmation(position.side, indicators,
                                                      market_conditions)
                     THEN "breakout"
                     ELSE IF is_level_defended(position.side, indicators)
                     THEN "defended"
                     ELSE "none"
             base == CASE kind = "pullback" -> 2000
                       [] kind = "breakout" -> 2500
                       [] kind = "defended" -> 1800
                       [] OTHER -> 0
             favoured == \/ position.side = "long" /\ market_conditions.trend_strength > 100
                         \/ position.side = "short" /\ market_conditions.trend_strength < -100
             penalty == IF position.scale_in_count >= ManyScaleIns THEN ManyScaleInsPenalty
                        ELSE IF position.scale_in_count >= 1 THEN SomeScaleInsPenalty
                        ELSE 0
             score == base + (IF market_conditions.volume_ratio > 130 THEN 800 ELSE 0)
                      + (IF favoured THEN 1200 ELSE 0) - penalty
         IN [score |-> score,
             percentage |-> CASE kind = "pullback" -> 300
                              [] kind = "breakout" -> 400
                              [] kind = "defended" -> 350
                              [] OTHER -> 0,
             confidence |-> Min((score * 100) \div 30, 9000),
             reason |-> CASE kind = "pullback" -> "Pullback saudavel"
                          [] kind = "breakout" -> "Confirmacao de breakout"
                          [] kind = "defended" -> "Nivel importantes defendido"
                          [] OTHER -> "",
             optimal_price |-> IF kind = "pullback"
                               THEN (IF position.side = "long"
                                     THEN (current_price * 998) \div 1000
                                     ELSE (current_price * 1002) \div 1000)
                               ELSE current_price,
             risk_level |-> IF position.scale_in_count >= ManyScaleIns THEN "high"
                            ELSE IF kind \in {"pullback", "defended"} THEN "low"
                            ELSE "medium"]

analyze_scaling_opportunity(position, current_price, age, market_conditions, indicators) ==
    LET current_pnl == calculate_pnl_pct(position, current_price)
        out == analyze_scale_out_opportunities(position, current_pnl, market_conditions,
                                               indicators)
        in == analyze_scale_in_opportunities(position, current_price, current_pnl, age,
                                             market_conditions, indicators)
    IN IF out.score > in.score
       THEN [action |-> "scale_out", percentage |-> out.percentage,
             confidence |-> out.confidence, reason |-> out.reason,
             optimal_price |-> current_price, risk_assessment |-> "low"]
       ELSE IF in.score > ScaleInThreshold
       THEN [action |-> "scale_in", percentage |-> in.percentage,
             confidence |-> in.confidence, reason |-> in.reason,
             optimal_price |-> in.optimal_price, risk_assessment |-> in.risk_level]
       ELSE [action |-> "hold", percentage |-> 0, confidence |-> 0, reason |-> "",
             optimal_price |-> current_price, risk_assessment |-> "medium"]

\* position: the dict after the call; executed, risk_check: of the result
execute_scaling_decision(position, scaling_analysis, current_balance) ==
    LET current_size == position.size
        base_size == IF position.has_original_size THEN position.original_size
                     ELSE current_size
        scale_out_amount == (current_size * scaling_analysis.percentage) \div 1000
        scale_in_amount == (base_size * scaling_analysis.percentage) \div 1000
    IN IF scaling_analysis.confidence < MinScalingConfidence
       THEN [position |-> position, executed |-> FALSE, risk_check |-> "low_confidence"]
       ELSE IF scaling_analysis.action = "scale_out"
       THEN (IF (position.total_scaled_out + scale_out_amount) * 10 > current_size * 9
             THEN [position |-> position, executed |-> FALSE,
                   risk_check |-> "max_scale_out_reached"]
             ELSE [position |-> [position EXCEPT
                                    !.size = current_size - scale_out_amount,
                                    !.total_scaled_out = @ + scale_out_amount],
                   executed |-> TRUE, risk_check |-> "passed"])
       ELSE IF scaling_analysis.action = "scale_in"
       THEN (IF current_size + scale_in_amount > base_size * max_position_multiplier
             THEN [position |-> position, executed |-> FALSE,
                   risk_check |-> "max_position_size"]
             ELSE IF scale_in_amount * scaling_analysis.optimal_price * 10
                     > current_balance * 3
             THEN [position |-> position, executed |-> FALSE,
                   risk_check |-> "insufficient_balance"]
             ELSE [position |-> [position EXCEPT
                                    !.entry_price =
                                        (@ * current_size
                                         + scaling_analysis.optimal_price * scale_in_amount)
                                        \div (current_size + scale_in_amount),
                                    !.size = current_size + scale_in_amount,
                                    !.scale_in_count = @ + 1],
                   executed |-> TRUE, risk_check |-> "passed"])
       ELSE [position |-> position, executed |-> FALSE, risk_check |-> "passed"]

(***************************************************************************)
(* One position analysed and scaled again and again                        *)
(***************************************************************************)
MaxScaleIns == 3

ScalingPositions ==
    [side : {"long", "short"}, entry_price : {10000}, size : {1000},
     has_original_size : BOOLEAN, original_size : {1000}, scale_in_count : {0},
     total_scaled_out : {0}]

\* the inputs of one analysis: move is the price against the position's
\* entry price, in hundredths of a percent
PullbackLong ==
    [rsi |-> 35, bb_position |-> 50, macd_histogram |-> 0,
     macd_histogram_rising |-> FALSE, momentum_bullish |-> FALSE,
     momentum_bearish |-> FALSE, rsi_rising |-> FALSE]
PullbackShort == [PullbackLong EXCEPT !.rsi = 65]
BreakoutLong ==
    [rsi |-> 50, bb_position |-> 70, macd_histogram |-> 10,
     macd_histogram_rising |-> TRUE, momentum_bullish |-> TRUE,
     momentum_bearish |-> FALSE, rsi_rising |-> TRUE]
Overbought == [PullbackLong EXCEPT !.rsi = 76, !.bb_position = 90]
QuietMarket ==
    [volume_ratio |-> 100, trend_strength |-> 0, current_volatility |-> 20,
     regime |-> "normal"]
RisingMarket == [QuietMarket EXCEPT !.volume_ratio = 140, !.trend_strength = 150]
FallingMarket == [QuietMarket EXCEPT !.volume_ratio = 140, !.trend_strength = -150]
WildMarket == [QuietMarket EXCEPT !.current_volatility = 45, !.regime = "ranging"]

ScalingCalls ==
    {[move |-> -100, age |-> 60, market_conditions |-> RisingMarket,
      indicators |-> PullbackLong],
     [move |-> -100, age |-> 60, market_conditions |-> QuietMarket,
      indicators |-> PullbackLong],
     [move |-> -100, age |-> 121, market_conditions |-> RisingMarket,
      indicators |-> PullbackLong],
     [move |-> 100, age |-> 60, market_conditions |-> RisingMarket,
      indicators |-> BreakoutLong],
     [move |-> 300, age |-> 60, market_conditions |-> WildMarket,
      indicators |-> Overbought],
     [move |-> 100, age |-> 60, market_conditions |-> FallingMarket,
      indicators |-> PullbackShort]}

Balances == {0, 100000000}

InitScaling ==
    /\ NoRiskManager
    /\ NoBot
    /\ NoTracker
    /\ NoExitManager
    /\ NoHeld
    /\ NoAnalyzer
    /\ NoKillSwitch
    /\ ma_config = EmptyDict
    /\ call_args = NoValue
    /\ call_result = NoValue
    /\ sc_position \in ScalingPositions
    /\ lastOp = "init"
    /\ lastResult = FALSE
    /\ lastReason = NoValue

AnalyzeScalingOpportunity ==
    /\ UNCHANGED <<callRest, call_args, ma_config, sc_position>>
    /\ \E c \in ScalingCalls :
          LET current_price == (sc_position.entry_price * (10000 + c.move)) \div 10000
              a == analyze_scaling_opportunity(sc_position, current_price, c.age,
                                               c.market_conditions, c.indicators)
          IN /\ call_result' = a
             /\ Returned("analyze_scaling_opportunity", a.action # "hold", a.reason)

\* execute_scaling_decision with the analysis returned last
ExecuteScalingDecision ==
    /\ UNCHANGED <<callRest, call_args, ma_config, call_result>>
    /\ lastOp \in {"analyze_scaling_opportunity", "execute_scaling_decision"}
    /\ sc_position.scale_in_count < MaxScaleIns
    /\ \E current_balance \in Balances :
          LET r == execute_scaling_decision(sc_position, call_result, current_balance)
          IN /\ sc_position' = r.position
             /\ Returned("execute_scaling_decision", r.executed, r.risk_check)

NextScaling ==
    \/ AnalyzeScalingOpportunity
    \/ ExecuteScalingDecision

SpecScaling == InitScaling /\ [][NextScaling]_vars

(***************************************************************************)
(* The entry scores of TechnicalAnalysis.generate_trading_signal, computed *)
(* from the indicators.  rsi in points, the MACD histogram in hundredths,  *)
(* bb_position in hundredths, bb_width_pct and momentum in tenths of a     *)
(* percent.                                                                *)
(***************************************************************************)
VeryStrongScore == 12
StrongScore == 8
NeutralScore == 5

\* variants of the RSI tiers
long_rsi_points_capped(ind) ==
    IF ind.rsi < 25 /\ ind.rsi_avg_3 < 30 THEN 4
    ELSE IF ind.rsi < 30 /\ ind.rsi_rising THEN 3
    ELSE IF ind.rsi < 35 THEN 2
    ELSE IF ind.rsi < 45 THEN 1
    ELSE 0

short_rsi_points_swapped(ind) ==
    IF ind.rsi > 80 /\ ind.rsi_avg_3 > 75 THEN 5
    ELSE IF ind.rsi > 75 /\ ind.rsi_avg_3 > 70 THEN 4
    ELSE IF ind.rsi > 70 /\ ~ind.rsi_rising THEN 3
    ELSE IF ind.rsi > 65 THEN 1
    ELSE IF ind.rsi > 55 THEN 2
    ELSE 0

long_rsi_points(ind) ==
    IF ind.rsi < 20 /\ ind.rsi_avg_3 < 25 THEN 5
    ELSE IF ind.rsi < 25 /\ ind.rsi_avg_3 < 30 THEN 4
    ELSE IF ind.rsi < 30 /\ ind.rsi_rising THEN 3
    ELSE IF ind.rsi < 35 THEN 2
    ELSE IF ind.rsi < 45 THEN 1
    ELSE 0

long_macd_points(ind) ==
    IF ind.macd_bullish
    THEN (IF ind.macd_histogram_rising
          THEN (IF ind.macd_histogram_avg_3 > 2 THEN 4 ELSE 3)
          ELSE 2)
    ELSE IF ind.macd_weak_bullish /\ ind.macd_histogram > -5 THEN 1
    ELSE 0

long_ema_points(ind) ==
    IF ind.ema_trend = "strong_bullish" THEN 4
    ELSE IF ind.ema_trend = "bullish" THEN 3
    ELSE IF ind.price_above_ema_short THEN 1
    ELSE 0

long_bb_points(ind) ==
    IF ind.bb_oversold THEN (IF ind.bb_width_pct > 25 THEN 3 ELSE 2)
    ELSE IF ind.bb_position < 25 THEN 1
    ELSE 0

long_momentum_points(ind) ==
    IF ind.momentum_bullish /\ ind.momentum_strong THEN 3
    ELSE IF ind.momentum_bullish THEN 2
    ELSE IF ind.momentum > -5 THEN 1
    ELSE 0

short_rsi_points(ind) ==
    IF ind.rsi > 80 /\ ind.rsi_avg_3 > 75 THEN 5
    ELSE IF ind.rsi > 75 /\ ind.rsi_avg_3 > 70 THEN 4
    ELSE IF ind.rsi > 70 /\ ~ind.rsi_rising THEN 3
    ELSE IF ind.rsi > 65 THEN 2
    ELSE IF ind.rsi > 55 THEN 1
    ELSE 0

short_macd_points(ind) ==
    IF ind.macd_bearish
    THEN (IF ~ind.macd_histogram_rising
          THEN (IF ind.macd_histogram_avg_3 < -2 THEN 4 ELSE 3)
          ELSE 2)
    ELSE IF ind.macd_weak_bearish /\ ind.macd_histogram < 5 THEN 1
    ELSE 0

short_ema_points(ind) ==
    IF ind.ema_trend = "strong_bearish" THEN 4
    ELSE IF ind.ema_trend = "bearish" THEN 3
    ELSE IF ~ind.price_above_ema_short THEN 1
    ELSE 0

short_bb_points(ind) ==
    IF ind.bb_overbought THEN (IF ind.bb_width_pct > 25 THEN 3 ELSE 2)
    ELSE IF ind.bb_position > 75 THEN 1
    ELSE 0

short_momentum_points(ind) ==
    IF ind.momentum_bearish /\ ind.momentum_strong THEN 3
    ELSE IF ind.momentum_bearish THEN 2
    ELSE IF ind.momentum < 5 THEN 1
    ELSE 0

entry_long_score(ind) ==
    long_rsi_points(ind) + long_macd_points(ind) + long_ema_points(ind)
        + long_bb_points(ind) + long_momentum_points(ind)

entry_short_score(ind) ==
    short_rsi_points(ind) + short_macd_points(ind) + short_ema_points(ind)
        + short_bb_points(ind) + short_momentum_points(ind)

\* _check_contradictory_signals for an entry; the configuration switch it
\* reads again is on by default
check_contradictory_signals(ind, action) ==
    LET n == IF action = "long"
             THEN (IF ind.macd_bearish /\ ind.macd_histogram < -10 THEN 1 ELSE 0)
                  + (IF ind.rsi > 85 THEN 1 ELSE 0)
                  + (IF ind.ema_trend = "strong_bearish" THEN 1 ELSE 0)
             ELSE (IF ind.macd_bullish /\ ind.macd_histogram > 10 THEN 1 ELSE 0)
                  + (IF ind.rsi < 15 THEN 1 ELSE 0)
                  + (IF ind.ema_trend = "strong_bullish" THEN 1 ELSE 0)
    IN n >= 2

signal_strength(score) ==
    IF score >= VeryStrongScore THEN "VERY_STRONG"
    ELSE IF score >= StrongScore THEN "STRONG"
    ELSE IF score >= NeutralScore THEN "NEUTRAL"
    ELSE "WEAK"

\* generate_trading_signal from the scores on, for a symbol without a
\* position; long_score and short_score are the local variables
generate_entry_signal(scoring, check_contradictions, ind) ==
    LET long_score == entry_long_score(ind)
        short_score == entry_short_score(ind)
        rejected == [action |-> "hold", strength |-> "NEUTRAL", confidence |-> 0,
                     long_score |-> long_score, short_score |-> short_score]
    IN IF /\ long_score >= scoring.min_score_long
          /\ long_score > short_score + scoring.min_score_difference
       THEN (IF check_contradictions /\ check_contradictory_signals(ind, "long")
             THEN rejected
             ELSE [action |-> "long", strength |-> signal_strength(long_score),
                   confidence |-> Min(45 + long_score * 8, 95),
                   long_score |-> long_score, short_score |-> short_score])
       ELSE IF /\ short_score >= scoring.min_score_short
               /\ short_score > long_score + scoring.min_score_difference
       THEN (IF check_contradictions /\ check_contradictory_signals(ind, "short")
             THEN rejected
             ELSE [action |-> "short", strength |-> signal_strength(short_score),
                   confidence |-> Min(45 + short_score * 8, 95),
                   long_score |-> long_score, short_score |-> short_score])
       ELSE rejected

(***************************************************************************)
(* One set of indicators scored, then scored again with another RSI        *)
(***************************************************************************)
RsiValues == {10, 18, 22, 27, 32, 40, 50, 60, 68, 73, 78, 82, 90}
RsiAverages == {22, 27, 50, 73, 78}

\* everything but the RSI: all bullish, all bearish, nothing, and weak
AllBullish ==
    [macd_bullish |-> TRUE, macd_bearish |-> FALSE, macd_weak_bullish |-> FALSE,
     macd_weak_bearish |-> FALSE, macd_histogram |-> 5, macd_histogram_rising |-> TRUE,
     macd_histogram_avg_3 |-> 3, ema_trend |-> "strong_bullish",
     price_above_ema_short |-> TRUE, bb_oversold |-> TRUE, bb_overbought |-> FALSE,
     bb_width_pct |-> 30, bb_position |-> 10, momentum |-> 20, momentum_bullish |-> TRUE,
     momentum_bearish |-> FALSE, momentum_strong |-> TRUE]

AllBearish ==
    [macd_bullish |-> FALSE, macd_bearish |-> TRUE, macd_weak_bullish |-> FALSE,
     macd_weak_bearish |-> FALSE, macd_histogram |-> -15, macd_histogram_rising |-> FALSE,
     macd_histogram_avg_3 |-> -3, ema_trend |-> "strong_bearish",
     price_above_ema_short |-> FALSE, bb_oversold |-> FALSE, bb_overbought |-> TRUE,
     bb_width_pct |-> 20, bb_position |-> 90, momentum |-> -20, momentum_bullish |-> FALSE,
     momentum_bearish |-> TRUE, momentum_strong |-> TRUE]

Indifferent ==
    [macd_bullish |-> FALSE, macd_bearish |-> FALSE, macd_weak_bullish |-> FALSE,
     macd_weak_bearish |-> FALSE, macd_histogram |-> 0, macd_histogram_rising |-> FALSE,
     macd_histogram_avg_3 |-> 0, ema_trend |-> "neutral",
     price_above_ema_short |-> TRUE, bb_oversold |-> FALSE, bb_overbought |-> FALSE,
     bb_width_pct |-> 10, bb_position |-> 50, momentum |-> 0, momentum_bullish |-> FALSE,
     momentum_bearish |-> FALSE, momentum_strong |-> FALSE]

OtherIndicators ==
    {AllBullish, AllBearish, Indifferent,
     [Indifferent EXCEPT !.macd_weak_bullish = TRUE, !.ema_trend = "bullish",
                         !.bb_position = 20, !.momentum_bullish = TRUE],
     [Indifferent EXCEPT !.macd_weak_bearish = TRUE, !.ema_trend = "bearish",
                         !.bb_position = 80, !.momentum_bearish = TRUE],
     [AllBearish EXCEPT !.ema_trend = "bullish", !.macd_histogram_rising = TRUE]}

WithRsi(others, rsi, rsi_avg_3, rsi_rising) ==
    [k \in DOMAIN others \cup {"rsi", "rsi_avg_3", "rsi_rising"} |->
        IF k = "rsi" THEN rsi
        ELSE IF k = "rsi_avg_3" THEN rsi_avg_3
        ELSE IF k = "rsi_rising" THEN rsi_rising
        ELSE others[k]]

InitScoring ==
    /\ NoRiskManager
    /\ NoBot
    /\ NoTracker
    /\ NoExitManager
    /\ NoHeld
    /\ NoAnalyzer
    /\ NoKillSwitch
    /\ ma_config = EmptyDict
    /\ sc_position = NoValue
    /\ \E others \in OtherIndicators, rsi \in RsiValues, rsi_avg_3 \in RsiAverages,
          rsi_rising \in BOOLEAN, check \in BOOLEAN :
          call_args = [indicators |-> WithRsi(others, rsi, rsi_avg_3, rsi_rising),
                       others |-> others, check_contradictions |-> check]
    /\ call_result = NoValue
    /\ lastOp = "init"
    /\ lastResult = FALSE
    /\ lastReason = NoValue

\* the first call, with the indicators as they are
GenerateEntrySignal ==
    /\ lastOp = "init"
    /\ UNCHANGED <<callRest, call_args, ma_config, sc_position>>
    /\ LET r == generate_entry_signal(DefaultScoring, call_args.check_contradictions,
                                      call_args.indicators)
       IN /\ call_result' = [signal |-> r, before |-> r,
                             rsi_before |-> call_args.indicators.rsi]
          /\ Returned("generate_trading_signal", r.action # "hold", r.strength)

\* a later call in which only the RSI is another
GenerateEntrySignalAgain ==
    /\ lastOp = "generate_trading_signal"
    /\ UNCHANGED <<callRest, ma_config, sc_position>>
    /\ \E rsi \in RsiValues :
          LET ind == [call_args.indicators EXCEPT !.rsi = rsi]
              r == generate_entry_signal(DefaultScoring, call_args.check_contradictions,
                                         ind)
          IN /\ call_args' = [call_args EXCEPT !.indicators = ind]
             /\ call_result' = [signal |-> r, before |-> call_result.signal,
                                rsi_before |-> call_args.indicators.rsi]
             /\ Returned("generate_trading_signal", r.action # "hold", r.strength)

NextScoring ==
    \/ GenerateEntrySignal
    \/ GenerateEntrySignalAgain

SpecScoring == InitScoring /\ [][NextScoring]_vars

(***************************************************************************)
(* The ExitManager consulted for one position as time passes               *)
(***************************************************************************)
ExitPrices == Prices \cup {1010}
HoldTimes == {0, 299, 300, 600, 601, 7199, 7200}

\* the default configuration, and one whose maximum hold time is as short
\* as the quick-profit window
ExitConfigs ==
    {DefaultExitConfig,
     [DefaultExitConfig EXCEPT !.max_hold_seconds = quick_profit_time_limit_seconds]}

ExitPositions == [side : Sides, entry_price : {0, 1000}, entry_time : {NoTime, 0}]

InitExit ==
    /\ NoRiskManager
    /\ NoBot
    /\ NoTracker
    /\ NoHeld
    /\ NoAnalyzer
    /\ NoKillSwitch
    /\ NoCall
    /\ em_config \in ExitConfigs
    /\ em_position \in ExitPositions
    /\ em_price = NoPrice
    /\ now = 0
    /\ lastOp = "init"
    /\ lastResult = FALSE
    /\ lastReason = NoValue

\* lastReason records the type of the ExitCondition returned
EmCheckExitConditions ==
    \E current_price \in ExitPrices :
        LET r == em_check_exit_conditions(em_config, em_position, current_price, now) IN
        /\ em_price' = current_price
        /\ Returned("ExitManager.check_exit_conditions", r # NoValue, r)
        /\ UNCHANGED <<riskVars, today, botVars, trackerVars, heldVars, analyzerVars, safetyVars, callVars,
                       em_config, em_position, now>>

TimePasses ==
    /\ \E t \in HoldTimes : t > now /\ now' = t
    /\ UNCHANGED <<riskVars, today, botVars, trackerVars, heldVars, analyzerVars, safetyVars, callVars,
                   em_config, em_position, em_price, lastOp, lastResult, lastReason>>

NextExit ==
    \/ EmCheckExitConditions
    \/ TimePasses

SpecExit == InitExit /\ [][NextExit]_vars

(***************************************************************************)
(* The RiskManager asked about one open position at a time                 *)
(***************************************************************************)
HeldPrices == {970, 979, 980, 990, 1000, 1024, 1030}

\* the better of two prices for the side of the position
Better(side, a, b) ==
    IF a = NoPrice THEN b
    ELSE IF side = "LONG" THEN Max(a, b) ELSE Min(a, b)

InitHeld ==
    /\ config \in DefaultCapConfigs
    /\ SetInit
    /\ today = 0
    /\ NoBot
    /\ NoTracker
    /\ NoExitManager
    /\ NoHeld
    /\ NoAnalyzer
    /\ NoKillSwitch
    /\ NoCall
    /\ lastOp = "init"
    /\ lastResult = FALSE
    /\ lastReason = NoValue

\* a position is opened; the RiskManager is not told
OpenHeld ==
    /\ held = NoPosition
    /\ held' \in Positions
    /\ check_price' = NoPrice
    /\ best_seen' = NoPrice
    /\ Returned("open", FALSE, NoValue)
    /\ UNCHANGED <<riskVars, today, botVars, trackerVars, exitVars, analyzerVars, safetyVars, callVars>>

CheckHeld ==
    /\ held # NoPosition
    /\ \E current_price \in HeldPrices :
        LET r == check_exit_conditions(RM, config, held, current_price) IN
        /\ SetRM(r.rm)
        /\ Returned("check_exit_conditions", r.reason # NoValue, r.reason)
        /\ check_price' = current_price
        /\ best_seen' = Better(held.side, best_seen, current_price)
    /\ UNCHANGED <<config, today, botVars, trackerVars, exitVars, analyzerVars, safetyVars, callVars, held>>

\* the position is closed and its trade is recorded
CloseHeld ==
    /\ held # NoPosition
    /\ statistics.total_trades < MaxTrades
    /\ \E pnl \in PnLs :
        LET trade == [pnl |-> pnl, symbol |-> held.symbol,
                      side |-> CloseSide(held, FALSE)] IN
        /\ SetRM(update_statistics(RM, config, today, trade))
        /\ Returned("update_statistics", FALSE, NoValue)
    /\ held' = NoPosition
    /\ UNCHANGED <<config, today, botVars, trackerVars, exitVars, analyzerVars, safetyVars, callVars,
                   check_price, best_seen>>

NextHeld ==
    \/ OpenHeld
    \/ CheckHeld
    \/ CloseHeld

SpecHeld == InitHeld /\ [][NextHeld]_vars

(***************************************************************************)
(* The MarketAnalyzer with its TechnicalAnalysis and RegimeDetector         *)
(***************************************************************************)
MaxAnalyses == 2        \* regime assessments computed in one run

AnalysisTimes == {0, 30, 45, 210, 1800}

ScoredMarkets ==
    {[long_score |-> 5, short_score |-> 0, exit_score |-> 0],
     [long_score |-> 0, short_score |-> 5, exit_score |-> 0],
     [long_score |-> 4, short_score |-> 5, exit_score |-> 0],
     [long_score |-> 5, short_score |-> 5, exit_score |-> 0],
     [long_score |-> 3, short_score |-> 0, exit_score |-> 4]}

AnalyzerMarkets ==
    {[long_score |-> 5, short_score |-> 0, exit_score |-> 0],
     [long_score |-> 0, short_score |-> 5, exit_score |-> 0],
     [long_score |-> 0, short_score |-> 0, exit_score |-> 0]}

RegimeData ==
    {[regime |-> "trending_up", series |-> 1], [regime |-> "consolidation", series |-> 2]}

HeldPosition == [symbol |-> BotSymbol, side |-> "LONG", entry_price |-> 1000]

InitAnalyzer ==
    /\ NoRiskManager
    /\ NoBot
    /\ NoTracker
    /\ NoExitManager
    /\ NoHeld
    /\ NoAnalyzer
    /\ NoKillSwitch
    /\ NoCall
    /\ lastOp = "init"
    /\ lastResult = FALSE
    /\ lastReason = NoValue

analyzerRest == <<riskVars, today, botVars, trackerVars, heldVars, safetyVars, callVars,
                  em_config, em_position, em_price>>

\* what a call leaves behind
Analysed(op, t_a, r_d, req, sig, analysis) ==
    /\ ta' = t_a
    /\ rd' = r_d
    /\ request' = req
    /\ last_signal' = sig
    /\ assessment' = IF analysis = NoAssessment THEN assessment ELSE analysis
    /\ assessed_at' = IF analysis = NoAssessment THEN assessed_at ELSE now
    /\ last_directional' = IF sig.action \in {"long", "short"} THEN now
                                                               ELSE last_directional
    /\ Returned(op, sig.action \notin {NoValue, "hold"}, sig.reason)

\* ta.generate_trading_signal(df, symbol, current_positions = ...) called on
\* the analyzer's TechnicalAnalysis
GenerateTradingSignal ==
    /\ UNCHANGED <<analyzerRest, now>>
    /\ \E enough_candles \in BOOLEAN, has_pos \in BOOLEAN, market \in ScoredMarkets :
        LET current_positions == IF has_pos THEN DictSet(EmptyDict, BotSymbol, HeldPosition)
                                            ELSE EmptyDict
            r == ta_generate_trading_signal(ta, DefaultScoring, now, FALSE,
                                            enough_candles, BotSymbol,
                                            current_positions, market)
        IN Analysed("generate_trading_signal", r.ta, rd,
                    [NoRequest EXCEPT !.market = market, !.has_position = has_pos,
                                      !.scored = r.signal.reason \in
                                          {"long_reasons", "short_reasons",
                                           "Aguardando sinal mais forte"}],
                    r.signal, NoAssessment)

\* feed: no candles, trading blocked by should_trade_now, under 30 candles,
\* or enough candles
AnalyzeMarket ==
    /\ Len(rd.regime_history) < MaxAnalyses
    /\ UNCHANGED <<analyzerRest, now>>
    /\ \E feed \in {"none", "blocked", "few", "enough"},
          data \in RegimeData \cup {NoData}, market \in AnalyzerMarkets :
        LET r == ma_analyze_market(ta, rd, now, BotSymbol,
                                   IF feed = "blocked" THEN "enough" ELSE feed,
                                   feed # "blocked", data, market)
        IN Analysed("analyze_market", r.ta, r.rd, [NoRequest EXCEPT !.market = market],
                    r.signal, r.analysis)

AnalyzeMarketRegime ==
    /\ Len(rd.regime_history) < MaxAnalyses
    /\ \E data \in RegimeData \cup {NoData} :
        LET r == analyze_market_regime(rd, data)
        IN /\ ta' = ta
           /\ rd' = r.rd
           /\ request' = NoRequest
           /\ assessment' = r.analysis
           /\ assessed_at' = IF r.analysis = NoAssessment THEN assessed_at ELSE now
           /\ Returned("analyze_market_regime", r.analysis # NoAssessment, NoValue)
           /\ UNCHANGED <<analyzerRest, now, last_signal, last_directional>>

AnalysisTimePasses ==
    /\ \E t \in AnalysisTimes : t > now /\ now' = t
    /\ UNCHANGED <<analyzerRest, analyzerVars, lastOp, lastResult, lastReason>>

NextAnalyzer ==
    \/ AnalyzeMarket
    \/ AnalyzeMarketRegime
    \/ AnalysisTimePasses

SpecAnalyzer == InitAnalyzer /\ [][NextAnalyzer]_vars

\* the TechnicalAnalysis alone, asked for signals directly
NextScorer ==
    \/ GenerateTradingSignal
    \/ AnalysisTimePasses

SpecScorer == InitAnalyzer /\ [][NextScorer]_vars

(***************************************************************************)
(* Properties of the RiskManager                                           *)
(***************************************************************************)
\* a step in which the named RiskManager method ran
Called(op) == lastOp' = op /\ today' = today

DailyLossReached == daily_pnl < 0 /\ Abs(daily_pnl) >= max_daily_loss

TotalLossReached ==
    /\ statistics.total_pnl < 0
    /\ Abs(statistics.total_pnl) * 100 >= kill_switch_loss_pct * initial_balance_usdt

DrawdownReached ==
    statistics.current_drawdown * 100 >= max_drawdown_pct * initial_balance_usdt

\* C1: once kill_switch_triggered is true, every step other than a
\* reset_kill_switch call (can_open_position, validate_signal,
\* check_exit_conditions, update_statistics, get_statistics,
\* get_risk_summary, a date rollover) leaves it true.
C1_KillSwitchLatched ==
    [][(kill_switch_triggered /\ ~Called("reset_kill_switch"))
           => kill_switch_triggered']_vars

\* C1 witness: the kill switch is still on after the daily reset of a later
\* day ran inside get_statistics.
C1_Witness ==
    /\ kill_switch_triggered
    /\ lastOp = "get_statistics"
    /\ today > 0
    /\ last_reset_date = today
    /\ statistics.total_trades > 0

\* C2: whenever consecutive_losses is at or above the kill-switch threshold,
\* the next can_open_position() returns False and the kill switch reads
\* active afterwards, whether or not kill_switch.enabled is set.
C2_NextEntryRejectedAndKillSwitchOn ==
    [][(/\ statistics.consecutive_losses >= kill_switch_consecutive
        /\ Called("can_open_position"))
           => (~lastResult' /\ is_kill_switch_active([RM EXCEPT
                   !.kill_switch_triggered = kill_switch_triggered']))]_vars

\* C4: can_open_position() returns True exactly when, on the values it
\* evaluated (those left after its daily reset), the kill switch is off, the
\* daily trade count is below the cap, the daily loss cap is not reached and
\* consecutive_losses is below the threshold; with the kill switch off and
\* the count at the cap (30 of 30) the refusal is the daily-limit one.
C4_CanOpenIff ==
    lastOp = "can_open_position" =>
        /\ lastResult <=> (/\ ~kill_switch_triggered
                           /\ daily_trade_count < config.max_daily_trades
                           /\ ~DailyLossReached
                           /\ statistics.consecutive_losses < kill_switch_consecutive)
        /\ (~kill_switch_triggered /\ daily_trade_count >= config.max_daily_trades)
               => (~lastResult /\ lastReason = "daily_limit")

\* C4 witness: 30 trades recorded today under a cap of 30, and
\* can_open_position has just refused for the daily-limit reason.
C4_Witness ==
    /\ lastOp = "can_open_position"
    /\ config.max_daily_trades = DefaultMaxDailyTrades
    /\ daily_trade_count = DefaultMaxDailyTrades
    /\ ~lastResult
    /\ lastReason = "daily_limit"

\* the totals a daily reset must not touch
KeptByReset ==
    <<kill_switch_triggered, statistics.consecutive_losses,
      statistics.max_consecutive_losses, statistics.total_trades,
      statistics.total_pnl, statistics.wins, statistics.losses,
      statistics.current_drawdown, statistics.max_drawdown>>

DailyFigures ==
    <<daily_trade_count, daily_pnl, statistics.daily_trades, statistics.daily_loss>>

\* C9: a can_open_position, update_statistics or get_statistics call on a
\* date later than last_reset_date first zeroes daily_trade_count, daily_pnl,
\* daily_trades and daily_loss (so update_statistics ends at one trade and
\* that trade's pnl) and the reset leaves the kill switch, the totals and the
\* drawdown figures alone; on the same date nothing is reset.
C9_DailyResetFirst ==
    [][LET later == today > last_reset_date
           pnl == statistics'.total_pnl - statistics.total_pnl
       IN
       /\ (later /\ Called("get_statistics"))
              => /\ DailyFigures' = <<0, 0, 0, 0>>
                 /\ KeptByReset' = KeptByReset
       /\ (later /\ Called("can_open_position"))
              => /\ DailyFigures' = <<0, 0, 0, 0>>
                 /\ statistics' = [statistics EXCEPT !.daily_trades = 0,
                                                     !.daily_loss = 0]
       /\ (later /\ Called("update_statistics"))
              => DailyFigures' = <<1, pnl, 1, Min(0, pnl)>>
       /\ (~later /\ (Called("get_statistics") \/ Called("can_open_position")))
              => DailyFigures' = DailyFigures
       /\ (~later /\ Called("update_statistics"))
              => /\ daily_trade_count' = daily_trade_count + 1
                 /\ daily_pnl' = daily_pnl + pnl]_vars

\* C9 witness: update_statistics ran first on a later day; the day's figures
\* restarted at one trade while the totals kept the earlier trades.
C9_Witness ==
    /\ lastOp = "update_statistics"
    /\ today > 0
    /\ last_reset_date = today
    /\ daily_trade_count = 1
    /\ statistics.total_trades > 1
    /\ statistics.consecutive_losses > 1

\* C10 as stated: after any update_statistics call, a total loss at or above
\* kill_switch_loss_pct of the initial balance, or a drawdown at or above
\* max_drawdown_pct of it, means the kill switch is triggered.
C10_AsStated ==
    (lastOp = "update_statistics" /\ (TotalLossReached \/ DrawdownReached))
        => kill_switch_triggered

\* C10 amended: the same, provided kill_switch.enabled is configured true.
C10_KillSwitchOnLossOrDrawdown ==
    (/\ config.kill_switch_enabled
     /\ lastOp = "update_statistics"
     /\ (TotalLossReached \/ DrawdownReached))
        => kill_switch_triggered

\* C10 witness: a win followed by a loss leaves the total positive and no
\* loss streak, and the drawdown alone has triggered the kill switch.
C10_Witness ==
    /\ config.kill_switch_enabled
    /\ lastOp = "update_statistics"
    /\ statistics.total_pnl > 0
    /\ statistics.consecutive_losses < kill_switch_consecutive
    /\ DrawdownReached
    /\ kill_switch_triggered

(***************************************************************************)
(* Properties of the PositionTracker                                       *)
(***************************************************************************)
\* C5: after any add_position / update_position / remove_position call the
\* tracker holds at most max_concurrent positions, one entry per symbol (the
\* positions dict is keyed by symbol); add_position for a symbol already
\* tracked, or at the limit, returns False and leaves the positions as they
\* were, and otherwise returns True and tracks exactly that one symbol more.
C5_TrackerLimits ==
    [][/\ Cardinality(DOMAIN tracker_positions') <= max_concurrent
       /\ DOMAIN tracker_positions' \subseteq TrackerSymbols
       /\ Called("add_position") =>
              IF \/ lastReason' \in DOMAIN tracker_positions
                 \/ Cardinality(DOMAIN tracker_positions) >= max_concurrent
              THEN ~lastResult' /\ tracker_positions' = tracker_positions
              ELSE /\ lastResult'
                   /\ DOMAIN tracker_positions' =
                          DOMAIN tracker_positions \cup {lastReason'}]_vars

\* C5 witness: add_position was refused for a symbol that is tracked while
\* the tracker is still below its limit.
C5_Witness ==
    /\ lastOp = "add_position"
    /\ ~lastResult
    /\ lastReason \in DOMAIN tracker_positions
    /\ Cardinality(DOMAIN tracker_positions) < max_concurrent

(***************************************************************************)
(* Properties of the trading cycle                                         *)
(***************************************************************************)
\* C3: in a cycle of either bot open_position is invoked only after
\* can_open_position() returned True in that cycle, so never while the kill
\* switch is active, the daily trade cap is reached or the daily loss cap is
\* reached.
C3_EntryOnlyAfterRiskGate ==
    cycle.open_invoked =>
        /\ cycle.can_open = "True"
        /\ ~kill_switch_triggered
        /\ daily_trade_count < config.max_daily_trades
        /\ ~DailyLossReached

\* C3 witness: an entry order was placed in a cycle that followed a losing
\* trade, the risk gate having answered True.
C3_Witness ==
    /\ cycle.open_invoked
    /\ cycle.can_open = "True"
    /\ cycle.entry = "success"
    /\ statistics.losses > 0

\* C6: a long or short signal is produced in a cycle only while no position
\* is open for the symbol, and a close_long / close_short signal only while
\* one is open, the analysis run while managing a position included.
C6_SignalMatchesPosition ==
    /\ cycle.signal \in {"long", "short"} => ~cycle.had_position
    /\ cycle.signal \in {"close_long", "close_short"} => cycle.had_position

\* C7: a failed close or entry leaves the position map as it was, after every
\* cycle the map holds a position exactly when the gateway holds one, and a
\* symbol is force-removed only when its position is gone on the exchange.
C7_FailedOrderLeavesMap ==
    [][Called("run_trading_cycle") =>
          /\ (cycle'.close = "failed" \/ cycle'.entry = "failed")
                 => pm_positions' = pm_positions
          /\ DOMAIN pm_positions' = DOMAIN exchange_positions'
          /\ cycle'.forced_removal => BotSymbol \notin DOMAIN exchange_positions']_vars

\* C8: a cycle whose close (full or partial) succeeded records exactly one
\* trade: total_trades grows by one and daily_trade_count by one from its
\* value after the daily reset, with or without a trade record in the
\* result; a cycle with a failed close, an entry or no order records none.
C8_OneUpdatePerClose ==
    [][Called("run_trading_cycle") =>
          IF cycle'.close = "success"
          THEN /\ statistics'.total_trades = statistics.total_trades + 1
               /\ daily_trade_count' =
                      reset_daily_stats_if_needed(RM, today).daily_trade_count + 1
          ELSE /\ statistics'.total_trades = statistics.total_trades
               /\ daily_trade_count' \in {daily_trade_count, 0}]_vars

(***************************************************************************)
(* Properties of the ExitManager                                           *)
(***************************************************************************)
\* a step in which the named ExitManager method ran
CalledNow(op) == lastOp' = op /\ now' = now

StopLossHolds(cfg, position, price) ==
    /\ position.entry_price # 0
    /\ PnlDelta(position, price) * 10000 <= -cfg.stop_loss_pct * position.entry_price

TakeProfitHolds(cfg, position, price) ==
    /\ position.entry_price # 0
    /\ PnlDelta(position, price) * 10000 >= cfg.take_profit_pct * position.entry_price

MaxTimingHolds(cfg, position, t) ==
    /\ position.entry_time # NoTime
    /\ t - position.entry_time >= cfg.max_hold_seconds

QuickProfitHolds(cfg, position, price, t) ==
    /\ position.entry_time # NoTime
    /\ position.entry_price # 0
    /\ t - position.entry_time >= cfg.min_hold_seconds
    /\ t - position.entry_time <= cfg.quick_profit_time_limit
    /\ PnlDelta(position, price) * 10000
           >= cfg.quick_profit_threshold * position.entry_price

\* C11: ExitManager.check_exit_conditions returns the exit condition of
\* highest priority among those that hold (stop-loss > take-profit >
\* max-timing > quick-profit) and None only when none of them holds.
C11_ExitPriority ==
    [][CalledNow("ExitManager.check_exit_conditions") =>
          LET sl == StopLossHolds(em_config, em_position, em_price')
              tp == TakeProfitHolds(em_config, em_position, em_price')
              mt == MaxTimingHolds(em_config, em_position, now)
              qp == QuickProfitHolds(em_config, em_position, em_price', now)
          IN lastReason' = IF sl THEN "stop_loss"
                           ELSE IF tp THEN "take_profit"
                           ELSE IF mt THEN "max_timing"
                           ELSE IF qp THEN "quick_profit"
                           ELSE NoValue]_vars

\* C11 witness: the take profit and the maximum hold time hold together and
\* the take profit was returned.
C11_Witness ==
    /\ lastOp = "ExitManager.check_exit_conditions"
    /\ TakeProfitHolds(em_config, em_position, em_price)
    /\ MaxTimingHolds(em_config, em_position, now)
    /\ lastReason = "take_profit"

(***************************************************************************)
(* Exit priority in the integrated bot                                     *)
(***************************************************************************)
\* the conditions that hold for the position managed in the cycle
StopLossDue(position, price) ==
    PnlDelta(position, price) * 10000 <= -stop_loss_pct * position.entry_price

TakeProfitDue(position, price) ==
    PnlDelta(position, price) * 10000 >= take_profit_pct * position.entry_price

C13_StopLossIff ==
    (lastOp = "check_exit_conditions" /\ held # NoPosition /\ config.stop_loss_enabled)
        => (lastReason = "Stop Loss" <=> StopLossDue(held, check_price))

\* C13 witness: a long opened at 100.0 was checked at 97.9 and the stop loss
\* was returned.
C13_Witness ==
    /\ lastOp = "check_exit_conditions"
    /\ held # NoPosition
    /\ held.side = "LONG"
    /\ held.entry_price = 1000
    /\ check_price = 979
    /\ lastReason = "Stop Loss"

\* the retracement of the price from the trailing reference of the symbol
Retraced(position, reference, price) ==
    (IF position.side = "LONG" THEN price - reference ELSE reference - price) * 10000
        <= -trailing_pct * reference

\* the reference moved from a to b in the position's favour, or stayed
NotAgainst(side, a, b) == IF side = "LONG" THEN b >= a ELSE b <= a

\* C14: with trailing enabled, after every check_exit_conditions call on an
\* open position the trailing reference of its symbol is the best favourable
\* price seen since the entry, it never moves against the position, and the
\* call returns a trailing-stop reason whenever the price has retraced from
\* the reference by at least trailing_pct and the stop loss has not fired.
C14_TrailingTracksBestPrice ==
    [][(Called("check_exit_conditions") /\ held # NoPosition /\ config.trailing_enabled) =>
          /\ held.symbol \in DOMAIN trailing_stops'
          /\ trailing_stops'[held.symbol] = best_seen'
          /\ held.symbol \in DOMAIN trailing_stops =>
                 /\ NotAgainst(held.side, trailing_stops[held.symbol],
                               trailing_stops'[held.symbol])
                 /\ (/\ Retraced(held, trailing_stops[held.symbol], check_price')
                     /\ ~StopLossDue(held, check_price'))
                        => lastReason' = "Trailing Stop"]_vars

(***************************************************************************)
(* Properties of the signal scorer                                         *)
(***************************************************************************)
\* the claim's conditions for a direction, on the scores of the last call
LongAllowed ==
    /\ request.market.long_score >= min_score_long
    /\ request.market.long_score - request.market.short_score >= min_score_difference

ShortAllowed ==
    /\ request.market.short_score >= min_score_short
    /\ request.market.short_score - request.market.long_score >= min_score_difference

NamesBothScores ==
    /\ last_signal.L = request.market.long_score
    /\ last_signal.S = request.market.short_score

EmitsNonHold ==
    /\ CalledNow("analyze_market")
    /\ last_signal'.action \notin {NoValue, "hold"}

\* C16: no analyze_market cycle returns a signal other than hold before
\* initial_wait_seconds have passed since the scorer was constructed (time
\* 0), and none returns one less than cooldown_between_trades_seconds after
\* a long or short signal, whether or not the cycle has a regime assessment.
C16_WarmUpAndCooldown ==
    [][EmitsNonHold =>
          /\ now >= initial_wait_seconds
          /\ last_directional # NoTime =>
                 now - last_directional >= cooldown_between_trades_seconds]_vars

\* C19: analyze_market_regime called twice in a row for the same symbol with
\* the same candle series returns the same assessment, the regime duration
\* included.
C19_SameSeriesSameAssessment ==
    [][(/\ lastOp = "analyze_market_regime"
        /\ lastOp' = "analyze_market_regime"
        /\ assessment # NoAssessment
        /\ assessment' # NoAssessment
        /\ assessment'.series = assessment.series)
           => assessment' = assessment]_vars

\* C20: while less than the interval has passed since an assessment was
\* computed for the symbol, should_analyze answers False and
\* get_current_regime returns the primary regime of that assessment.
C20_RegimeCachedForInterval ==
    (/\ assessment # NoAssessment
     /\ assessed_at # NoTime
     /\ now - assessed_at < RegimeIntervalMinutes * 60)
        => /\ ~should_analyze(rd, BotSymbol, RegimeIntervalMinutes, now)
           /\ get_current_regime(rd, BotSymbol) = assessment.primary_regime

(***************************************************************************)
(* Properties of closing                                                   *)
(***************************************************************************)
\* this step asks for the close of a symbol that has no position: the
\* tracker is asked to remove a symbol it does not track, or the adapter or
\* the basic bot's _execute_exit is asked to close a symbol the gateway
\* holds no position for
ClosesAbsent ==
    \/ /\ lastOp' = "remove_position"
       /\ lastReason' \notin DOMAIN tracker_positions
    \/ /\ lastOp' \in {"close_position", "_execute_exit"}
       /\ lastReason' \notin DOMAIN pm_positions

KillSwitchCleared ==
    \/ ks.active /\ ~ks'.active
    \/ kill_switch_triggered /\ ~kill_switch_triggered'

\* this step is a reset call, of either holder, without the valid code
UnauthorizedReset ==
    /\ lastOp' \in {"KillSwitch.reset", "reset_kill_switch"}
    /\ lastReason' # AuthorizationCode
    /\ now' = now

\* C18: in the KillSwitch and in the RiskManager the active state is cleared
\* only by a reset call that carries the valid authorization; a reset
\* without it returns failure and leaves the flag and the trigger reason,
\* time and data as they were; get_status shows the active state.
C18_ResetNeedsAuthorization ==
    [][/\ KillSwitchCleared =>
              /\ lastOp' \in {"KillSwitch.reset", "reset_kill_switch"}
              /\ lastReason' = AuthorizationCode
       /\ UnauthorizedReset =>
              /\ lastResult' = FALSE
              /\ ks' = ks
              /\ kill_switch_triggered' = kill_switch_triggered
       /\ (lastOp' = "KillSwitch.get_status" /\ now' = now) =>
              /\ lastResult' = ks.active
              /\ lastReason' = ks.trigger_reason]_vars

(***************************************************************************)
(* Properties of the regime filter                                         *)
(***************************************************************************)
Filtered == lastOp = "_apply_regime_filters"

CounterTrend ==
    /\ call_result.regime_analysis.trend_strength > StrongTrend
    /\ \/ /\ call_result.regime_analysis.primary_regime = "trending_up"
          /\ call_args.signal.action = "short"
       \/ /\ call_result.regime_analysis.primary_regime = "trending_down"
          /\ call_args.signal.action = "long"

\* C21: the regime filter returns the action it was given or hold, and
\* returns hold for a short in a TRENDING_UP regime and for a long in a
\* TRENDING_DOWN regime when the trend strength is above 0.6.
C21_FilterOnlyDowngrades ==
    Filtered =>
        /\ call_result.signal.action \in {call_args.signal.action, "hold"}
        /\ CounterTrend => call_result.signal.action = "hold"

\* C21 witness: a short met a strong up-trend and came back as hold.
C21_Witness ==
    /\ Filtered
    /\ CounterTrend
    /\ call_args.signal.action = "short"
    /\ call_result.signal.action = "hold"

\* C22: in every analysis cycle the entry score minimum applied is
\* max(3.0, configured - 1.0) under a trending regime and
\* min(7.0, configured + 1.5) under high volatility, configured being the
\* value in the analyzer's own configuration, and the cycle leaves the
\* analyzer's configuration as it was
C22_AdjustmentStaysInTheCycle ==
    [][CalledNow("_adjust_config_for_regime") =>
         /\ ma_config' = ma_config
         /\ call_args'.regime \in {"trending_up", "trending_down"} =>
                /\ min_score_long_of(call_result')
                     = Max(TrendFloor, min_score_long_of(ma_config) - TrendCut)
                /\ min_score_short_of(call_result')
                     = Max(TrendFloor, min_score_short_of(ma_config) - TrendCut)
         /\ call_args'.regime = "high_volatility" =>
                /\ min_score_long_of(call_result')
                     = Min(VolatileCap, min_score_long_of(ma_config) + VolatileRaise)
                /\ min_score_short_of(call_result')
                     = Min(VolatileCap, min_score_short_of(ma_config) + VolatileRaise)]_vars

CounterBreakout ==
    \/ /\ call_result.regime_analysis.primary_regime = "breakout_up"
       /\ call_args.signal.action = "short"
    \/ /\ call_result.regime_analysis.primary_regime = "breakout_down"
       /\ call_args.signal.action = "long"

\* C30: an assessment the classifier produces with a breakout primary regime
\* has confidence <= 0.8, and the filter given such an assessment keeps the
\* action of a signal against the breakout and multiplies its confidence by
\* 0.7
C30_ClassifiedBreakoutNeverForcesHold ==
    (/\ Filtered
     /\ call_args.classified
     /\ call_result.regime_analysis.primary_regime \in {"breakout_up", "breakout_down"}) =>
        /\ call_result.regime_analysis.confidence <= StrongBreakoutConfidence
        /\ CounterBreakout =>
               /\ call_result.signal.action = call_args.signal.action
               /\ call_result.signal.confidence = (call_args.signal.confidence * 7) \div 10

\* C30 witness: the strongest breakout upwards the classifier can report met
\* a short, which came back as a short with less confidence.
C30_Witness ==
    /\ Filtered
    /\ call_args.classified
    /\ call_args.breakout.breakout_strength > BreakoutFull
    /\ call_result.regime_analysis.primary_regime = "breakout_up"
    /\ call_result.regime_analysis.confidence = StrongBreakoutConfidence
    /\ call_args.signal.action = "short"
    /\ call_result.signal.action = "short"
    /\ call_result.signal.confidence < call_args.signal.confidence

Scaling == lastOp \in {"analyze_scaling_opportunity", "execute_scaling_decision"}

\* C23: whatever analyze_scaling_opportunity and execute_scaling_decision
\* calls are made on a position, its scale_in_count never exceeds 2
C23_AtMostTwoScaleIns ==
    Scaling => sc_position.scale_in_count <= ManyScaleIns

Scored == lastOp = "generate_trading_signal"

TheScenario ==
    /\ call_args.indicators.rsi = 18
    /\ call_args.indicators.rsi_avg_3 = 22
    /\ call_args.others = AllBullish

\* C24: a side's entry score is the sum of the per-indicator points, at most
\* 5 + 4 + 4 + 3 + 3; for RSI 18 with average 22, MACD bullish and rising with
\* histogram average 0.03, EMA strong_bullish, Bollinger oversold with width
\* 3.0% and strong bullish momentum the long score is 19, the action long and
\* the strength VERY_STRONG; an emitted signal's strength follows its score
\* (12 very strong, 8 strong, 5 neutral, weak below)
C24_ScoreIsSumOfTiers ==
    Scored =>
        /\ call_result.signal.long_score \in 0..19
        /\ call_result.signal.short_score \in 0..19
        /\ TheScenario =>
               /\ call_result.signal.long_score = 19
               /\ call_result.signal.action = "long"
               /\ call_result.signal.strength = "VERY_STRONG"
        /\ call_result.signal.action = "long" =>
               call_result.signal.strength
                   = (IF call_result.signal.long_score >= 12 THEN "VERY_STRONG"
                      ELSE IF call_result.signal.long_score >= 8 THEN "STRONG"
                      ELSE IF call_result.signal.long_score >= 5 THEN "NEUTRAL"
                      ELSE "WEAK")

\* C24 witness: the scenario was scored and came back as a long.
C24_Witness ==
    /\ Scored
    /\ TheScenario
    /\ call_result.signal.action = "long"
    /\ call_result.signal.long_score = 19

\* C25: with the RSI average, the rising flag and every other indicator
\* fixed, the long score does not decrease when the RSI is lowered and the
\* short score does not decrease when the RSI is raised
C25_ScoresMonotoneInRsi ==
    Scored =>
        /\ call_args.indicators.rsi <= call_result.rsi_before =>
               call_result.signal.long_score >= call_result.before.long_score
        /\ call_args.indicators.rsi >= call_result.rsi_before =>
               call_result.signal.short_score >= call_result.before.short_score

\* C25 witness: a lower RSI that raised the long score.
C25_Witness ==
    /\ Scored
    /\ call_args.indicators.rsi < call_result.rsi_before
    /\ call_result.signal.long_score > call_result.before.long_score

\* C26: while a position is open, every trading cycle past the warm-up whose
\* analysis interval has elapsed manages the position, that is, evaluates
\* its stop-loss, trailing-stop, take-profit and hold-time exits, whether
\* the kill switch is active or not
C26_OpenPositionAlwaysManaged ==
    (lastOp = "run_trading_cycle" /\ cycle.ready /\ cycle.had_position) => cycle.managed

PositionEnded == cycle'.had_position /\ ~has_position(pm_positions', BotSymbol)

PartlyClosed ==
    /\ cycle'.had_position
    /\ cycle'.close = "success"
    /\ has_position(pm_positions', BotSymbol)

\* C27: a cycle that opens a position finds no trailing reference of an
\* earlier position on the symbol; a cycle that ends a position, by a close
\* with or without a trade record or by the forced cleanup after a failed
\* close, removes the symbol's reference; a partial close leaves the
\* reference of the position that stays open as it was
C27_NoLeftoverTrailingReference ==
    [][lastOp' = "run_trading_cycle" =>
         /\ cycle'.entry = "success" => BotSymbol \notin DOMAIN trailing_stops'
         /\ PositionEnded => BotSymbol \notin DOMAIN trailing_stops'
         /\ (PartlyClosed /\ BotSymbol \in DOMAIN trailing_stops) =>
                /\ BotSymbol \in DOMAIN trailing_stops'
                /\ trailing_stops'[BotSymbol] = trailing_stops[BotSymbol]]_vars

AsksWhetherToTrade == Called("can_open_position") \/ Called("get_risk_summary")

\* with the kill switch enabled, update_statistics sets the flag as soon as
\* the streak reaches the threshold: only a reset leaves this state behind
StreakStillOn ==
    /\ config.kill_switch_enabled
    /\ ~kill_switch_triggered
    /\ statistics.consecutive_losses >= kill_switch_consecutive

ResetKeepsTheStreak ==
    Called("reset_kill_switch") =>
        /\ ~kill_switch_triggered'
        /\ statistics' = statistics
        /\ UNCHANGED <<daily_trade_count, daily_pnl, last_reset_date, trailing_stops>>

StreakEndsOnlyByAWin ==
    statistics'.consecutive_losses < statistics.consecutive_losses =>
        /\ lastOp' = "update_statistics"
        /\ statistics'.wins = statistics.wins + 1

\* the daily checks of can_open_position, which come before the streak's
DailyLimitAnswers ==
    \/ daily_trade_count' >= config.max_daily_trades
    \/ daily_pnl' < 0 /\ Abs(daily_pnl') >= max_daily_loss

StatisticsConsistent ==
    /\ statistics.wins + statistics.losses = statistics.total_trades
    /\ 0 <= statistics.consecutive_losses
    /\ statistics.consecutive_losses <= statistics.max_consecutive_losses
    /\ 0 <= statistics.current_drawdown
    /\ statistics.current_drawdown <= statistics.max_drawdown
    /\ statistics.daily_trades = daily_trade_count
    /\ daily_trade_count <= statistics.total_trades
    /\ statistics.total_trades = 0 => statistics.consecutive_losses = 0

\* the pnl of the trade a step records is what it adds to total_pnl
StreakFollowsLastTrade ==
    IF statistics'.total_trades = statistics.total_trades
    THEN statistics'.consecutive_losses = statistics.consecutive_losses
    ELSE /\ statistics'.total_trades = statistics.total_trades + 1
         /\ statistics'.consecutive_losses = 0
                <=> statistics'.total_pnl - statistics.total_pnl > 0
         /\ statistics'.total_pnl - statistics.total_pnl <= 0 =>
                statistics'.consecutive_losses = statistics.consecutive_losses + 1

\* C29: after any update_statistics calls and daily rollovers, wins + losses
\* = total_trades, 0 <= consecutive_losses <= max_consecutive_losses,
\* 0 <= current_drawdown <= max_drawdown, statistics['daily_trades'] =
\* daily_trade_count <= total_trades, and consecutive_losses is 0 exactly
\* when no trade is on record or the last one had pnl > 0
C29_StatisticsStayConsistent ==
    [][StatisticsConsistent /\ StatisticsConsistent' /\ StreakFollowsLastTrade]_vars

\* C29 witness: a day after the first trades, a trade with pnl 0 has
\* lengthened a streak that a win had ended before.
C29_Witness ==
    /\ lastOp = "update_statistics"
    /\ statistics.wins >= 1
    /\ statistics.consecutive_losses >= 1
    /\ statistics.current_drawdown = 0
    /\ statistics.max_consecutive_losses >= 1
    /\ daily_trade_count < statistics.total_trades


====
